---- MODULE Spec2Model ----
(***************************************************************************)
(* A model of rust-matrix-state: the authorizer (auth.rs), the state       *)
(* resolver (state.rs) and the DAG engine of main (main.rs).               *)
(*                                                                         *)
(* The specifications of the module:                                       *)
(*   SpecAuth    - check and auth_types_for_event applied to one event and *)
(*                 one auth state drawn from bounded sets;                 *)
(*   SpecResolve - resolve_state applied to a list of state maps;          *)
(*   Spec        - main: reading the events, get_ordered_fast, the state   *)
(*                 walk;                                                   *)
(*   SpecPower   - check on events of a room with a power-levels event;    *)
(*   SpecMembers - a sequence of membership events, each checked against   *)
(*                 the auth state the accepted ones before it made;        *)
(*   SpecOrder   - order_events;                                           *)
(*   SpecStages  - resolve_state on maps whose auth slots conflict;        *)
(*   SpecEvents  - resolve_auth_events on the candidates of one slot;      *)
(*   SpecSearch  - main's binary search for the first divergence.          *)
(***************************************************************************)
EXTENDS Integers, Sequences, FiniteSets, TLC

VARIABLES
    \* ---- SpecAuth
    a_pc,        \* "idle" | "start" | "checked" | "typed"
    a_event,     \* the candidate event
    a_auth,      \* the auth state: slot -> event
    a_result,    \* outcome of check: "none", "ok", "panic" or the error text
    a_types,     \* outcome of auth_types_for_event: sequence of slots, or "panic"
    a_order,     \* the order in which the HashSet users_to_check yields users
    \* ---- SpecResolve
    r_pc,        \* "idle" | "start" | "done"
    r_sets,      \* the list of input state maps
    r_order,     \* the iteration order the hash containers happen to have
    r_out,       \* [status, map]: what resolve_state produced
    \* ---- Spec (main)
    pc,          \* "idle" | "read" | "order" | "walk" | "done" | "panic"
    input,       \* the lines of the input file, parsed
    event_map, parents, extremities, roots,
    zeroes, adjacents, ordered,
    idx,         \* position of the walk in ordered (0-based count of events done)
    next_sg, event_to_sg, sg_to_state,
    minted,      \* history: event id -> TRUE when the walk minted a group for it
    computed,    \* history: event id -> the state map the walk computed for it
    \* ---- SpecOrder
    o_pc,        \* "idle" | "start" | "sorted"
    o_emap,      \* event id -> event
    o_events,    \* the list handed to order_events, as event ids
    o_sorted,    \* the list after order_events
    \* ---- SpecEvents
    e_pc,        \* "idle" | "start" | "done"
    e_emap,      \* event id -> event
    e_key,       \* the slot being resolved
    e_events,    \* the slot's candidate events, as event ids
    e_auth,      \* the auth events the call is given: slot -> event id
    e_out,       \* the id of the event returned, "panic", or "none"
    \* ---- SpecSearch
    s_pc,        \* "idle" | "start" | "done"
    s_agree,     \* per position of ordered: computed state = external state
    s_res        \* the index the binary search reports, or -1

avars == <<a_pc, a_event, a_auth, a_result, a_types, a_order>>
rvars == <<r_pc, r_sets, r_order, r_out>>
mvars == <<pc, input, event_map, parents, extremities, roots, zeroes, adjacents,
           ordered, idx, next_sg, event_to_sg, sg_to_state, minted, computed>>
ovars == <<o_pc, o_emap, o_events, o_sorted>>
evars == <<e_pc, e_emap, e_key, e_events, e_auth, e_out>>
svars == <<s_pc, s_agree, s_res>>
vars == <<avars, rvars, mvars, ovars, evars, svars>>

-----------------------------------------------------------------------------
(* Option<T>: None is the empty sequence, Some(x) the one-element sequence. *)
None == <<>>
Some(x) == <<x>>
IsSome(o) == Len(o) = 1
UnwrapOr(o, d) == IF Len(o) = 1 THEN o[1] ELSE d

(* A function with no entries: an empty JSON object, an empty StateMap.    *)
Empty == [x \in {} |-> x]

(* serde_json::Value, by kind.  A float carries its value in tenths.       *)
JStr(s) == [k |-> "str", s |-> s]
JInt(n) == [k |-> "int", n |-> n]
JFloat(t) == [k |-> "float", t |-> t]
JObj(o) == [k |-> "obj", o |-> o]
JNull == [k |-> "null"]

(* Map::get / Value::get                                                    *)
Get(obj, key) == IF key \in DOMAIN obj THEN Some(obj[key]) ELSE None
(* Value::as_str                                                            *)
as_str(v) == IF v.k = "str" THEN Some(v.s) ELSE None
(* Value::as_object                                                         *)
as_object(v) == IF v.k = "obj" THEN Some(v.o) ELSE None
(* content.get(key).and_then(Value::as_str)                                 *)
GetStr(obj, key) == IF key \in DOMAIN obj THEN as_str(obj[key]) ELSE None

-----------------------------------------------------------------------------
(* Strings are opaque in TLA+: what the code reads off a string (the part  *)
(* after the first ':', a leading '@', its value as a decimal integer, its *)
(* SHA-1 digest) is tabulated for the strings the model uses.              *)

DomainTable ==
    ("@a:x" :> "x") @@ ("@b:x" :> "x") @@ ("@c:y" :> "y") @@
    ("!r:x" :> "x") @@ ("!r:y" :> "y") @@
    ("$1:x" :> "x") @@ ("$2:x" :> "x") @@ ("$3:x" :> "x") @@ ("$4:x" :> "x") @@
    ("$c:x" :> "x") @@ ("$m:y" :> "y")

(* string.splitn(2, ":").nth(1).ok_or_else(..)                              *)
get_domain_from_id(string) ==
    IF string \in DOMAIN DomainTable THEN Some(DomainTable[string]) ELSE None

(* state_key.starts_with("@")                                               *)
starts_with_at(s) == s \in {"@a:x", "@b:x", "@c:y", "@nocolon"}

(* s.parse::<i64>()                                                         *)
ParseTable ==
    ("0" :> 0) @@ ("5" :> 5) @@ ("50" :> 50) @@ ("100" :> 100) @@ ("-1" :> -1)
parse_i64(s) == IF s \in DOMAIN ParseTable THEN Some(ParseTable[s]) ELSE None

(* n as i64 for a float: truncation toward zero (the value is in tenths).  *)
trunc(t) == IF t >= 0 THEN t \div 10 ELSE -((-t) \div 10)

as_int(value) ==
    IF value.k = "int" THEN Some(value.n)
    ELSE IF value.k = "float" THEN Some(trunc(value.t))
    ELSE IF value.k = "str" THEN parse_i64(value.s)
    ELSE None

(* content.get(name).and_then(as_int)                                       *)
GetInt(obj, key) == IF key \in DOMAIN obj THEN as_int(obj[key]) ELSE None

-----------------------------------------------------------------------------
(* StateMap<V>: a function from slots <<type, state_key>> to values.       *)
Slot(t, s) == <<t, s>>
contains_key(map, t, s) == Slot(t, s) \in DOMAIN map
sm_get(map, t, s) == IF Slot(t, s) \in DOMAIN map THEN Some(map[Slot(t, s)]) ELSE None
sm_insert(map, t, s, v) ==
    [k \in DOMAIN map \cup {Slot(t, s)} |-> IF k = Slot(t, s) THEN v ELSE map[k]]

CreateSlot == Slot("m.room.create", "")
PowerSlot == Slot("m.room.power_levels", "")
JoinRulesSlot == Slot("m.room.join_rules", "")
MemberSlot(u) == Slot("m.room.member", u)

-----------------------------------------------------------------------------
(* auth.rs: the authorizer.  An outcome is "ok", "panic" (the call aborts  *)
(* the process) or the text of the error returned.  An Event is a record   *)
(* [event_id, sender, etype, state_key, room_id, prev_events, redacts,     *)
(* depth, content]; state_key and redacts are Options.                     *)

(* `r?; next`: an error (or an abort) of r ends the function, otherwise *)
(* next is its result.                                                 *)
and_then(r, next) == IF r = "ok" THEN next ELSE r

get_user_power_level(user, auth_events) ==
    IF PowerSlot \in DOMAIN auth_events
    THEN LET pev == auth_events[PowerSlot]
             default == UnwrapOr(GetInt(pev.content, "users_default"), 0)
             users == IF "users" \in DOMAIN pev.content
                      THEN as_object(pev.content["users"]) ELSE None
         IN  IF IsSome(users) /\ user \in DOMAIN users[1]
             THEN UnwrapOr(as_int(users[1][user]), default)
             ELSE default
    ELSE LET creator == IF CreateSlot \in DOMAIN auth_events
                        THEN GetStr(auth_events[CreateSlot].content, "creator")
                        ELSE None
         IN  IF IsSome(creator) /\ creator = Some(user) THEN 100 ELSE 0

get_named_level(name, auth_events) ==
    IF PowerSlot \in DOMAIN auth_events
    THEN GetInt(auth_events[PowerSlot].content, name)
    ELSE None

get_send_level_defaults_only(etype, is_state, auth_events) ==
    IF PowerSlot \in DOMAIN auth_events
    THEN IF is_state
         THEN UnwrapOr(GetInt(auth_events[PowerSlot].content, "state_default"), 50)
         ELSE UnwrapOr(GetInt(auth_events[PowerSlot].content, "events_default"), 0)
    ELSE 0

get_send_level(etype, is_state, auth_events) ==
    IF PowerSlot \in DOMAIN auth_events
    THEN LET pev == auth_events[PowerSlot]
             default == IF is_state
                        THEN UnwrapOr(GetInt(pev.content, "state_default"), 50)
                        ELSE UnwrapOr(GetInt(pev.content, "events_default"), 0)
             events == IF "events" \in DOMAIN pev.content
                       THEN as_object(pev.content["events"]) ELSE None
         IN  IF IsSome(events) /\ etype \in DOMAIN events[1]
             THEN UnwrapOr(as_int(events[1][etype]), default)
             ELSE default
    ELSE 0

check_third_party_invite(event, auth_events) ==
    LET user_level == get_user_power_level(event.sender, auth_events)
        invite_level == UnwrapOr(get_named_level("invite", auth_events), 0)
    IN  IF user_level < invite_level
        THEN "user power level is less than invite level"
        ELSE "ok"

check_user_in_room(event, auth_events) ==
    LET m == IF MemberSlot(event.sender) \in DOMAIN auth_events
             THEN GetStr(auth_events[MemberSlot(event.sender)].content, "membership")
             ELSE None
    IN  IF m = Some("join") THEN "ok" ELSE "user not in room"

check_can_send_event(event, auth_events) ==
    LET send_level == get_send_level(event.etype, IsSome(event.state_key), auth_events)
        user_level == get_user_power_level(event.sender, auth_events)
    IN  IF user_level < send_level
        THEN "user doesn't have power to send event"
        ELSE IF /\ IsSome(event.state_key)
                /\ starts_with_at(event.state_key[1])
                /\ event.state_key[1] # event.sender
        THEN "cannot have user state_key"
        ELSE "ok"

check_redaction(event, auth_events) ==
    LET user_level == get_user_power_level(event.sender, auth_events)
        redact_level == UnwrapOr(get_named_level("redact", auth_events), 50)
    IN  IF user_level >= redact_level THEN "ok"
        ELSE IF IsSome(event.redacts)
        THEN LET rd == get_domain_from_id(event.redacts[1])
                 sd == get_domain_from_id(event.sender)
             IN  IF rd = None \/ sd = None THEN "invalid ID"
                 ELSE IF rd = sd THEN "ok" ELSE "cannot redact"
        ELSE "cannot redact"

(* NumberLike deserializes through deserializer.deserialize_i64: an        *)
(* integer is visited (visit_i64 / visit_u64); for any other value, a      *)
(* string included, serde_json reports an invalid type without calling     *)
(* the visitor, so visit_str is never reached and the value fails to       *)
(* deserialize.                                                            *)
NumberLike(v) ==
    IF v.k = "int" THEN Some(v.n)
    ELSE None

(* content.get(key).map(from_value::<HashMap<String, NumberLike>>)...      *)
(* .unwrap_or_default(): [ok, m]; ok is FALSE when from_value fails.       *)
number_like_map(content, key) ==
    IF key \notin DOMAIN content THEN [ok |-> TRUE, m |-> Empty]
    ELSE LET v == content[key]
         IN  IF v.k # "obj" THEN [ok |-> FALSE, m |-> Empty]
             ELSE IF \E u \in DOMAIN v.o : NumberLike(v.o[u]) = None
             THEN [ok |-> FALSE, m |-> Empty]
             ELSE [ok |-> TRUE, m |-> [u \in DOMAIN v.o |-> NumberLike(v.o[u])[1]]]

levels_to_check ==
    <<"users_default", "events_default", "state_default", "ban", "kick", "redact", "invite">>

(* One pass of the loop over levels_to_check, from position i.             *)
RECURSIVE check_named_levels(_, _, _, _)
check_named_levels(i, old_content, new_content, user_level) ==
    IF i > Len(levels_to_check) THEN "ok"
    ELSE LET name == levels_to_check[i]
             old_level == GetInt(old_content, name)
             new_level == GetInt(new_content, name)
         IN  IF old_level = new_level
             THEN check_named_levels(i + 1, old_content, new_content, user_level)
             ELSE IF IsSome(old_level) /\ old_level[1] > user_level
             THEN "old level higher for {} greater than users"
             ELSE IF IsSome(new_level) /\ new_level[1] > user_level
             THEN "new level higher for {} greater than users"
             ELSE check_named_levels(i + 1, old_content, new_content, user_level)

(* The users a_order does not name, in some order.                         *)
RECURSIVE Rest(_)
Rest(users) ==
    IF users = {} THEN <<>>
    ELSE LET user == CHOOSE u \in users : TRUE
         IN  <<user>> \o Rest(users \ {user})

(* users_to_check, a HashSet, in the order it yields its users: those      *)
(* a_order names in the order of a_order, then the others.                 *)
users_to_check(old_users, new_users) ==
    LET users == DOMAIN old_users \cup DOMAIN new_users
        named == {a_order[i] : i \in DOMAIN a_order}
    IN  SelectSeq(a_order, LAMBDA u : u \in users) \o Rest(users \ named)

RECURSIVE check_users_strict_loop(_, _, _, _)
check_users_strict_loop(users, old_users, new_users, user_level) ==
    IF users = <<>> THEN "ok"
    ELSE LET old_level == Get(old_users, Head(users))
             new_level == Get(new_users, Head(users))
         IN  IF old_level = new_level
             THEN check_users_strict_loop(Tail(users), old_users, new_users, user_level)
             ELSE IF IsSome(old_level) /\ old_level[1] > user_level
             THEN "old level higher for {} greater than users"
             ELSE IF IsSome(new_level) /\ new_level[1] > user_level
             THEN "new level higher for {} greater than users"
             ELSE check_users_strict_loop(Tail(users), old_users, new_users, user_level)

(* The loop over users_to_check: it stops at the first user, in the order  *)
(* the set yields them, that fails one of the two tests.                   *)
RECURSIVE check_users_loop(_, _, _, _)
check_users_loop(users, old_users, new_users, user_level) ==
    IF users = <<>> THEN "ok"
    ELSE LET old_level == Get(old_users, Head(users))
             new_level == Get(new_users, Head(users))
         IN  IF old_level = new_level
             THEN check_users_loop(Tail(users), old_users, new_users, user_level)
             ELSE IF IsSome(old_level) /\ old_level[1] >= user_level
             THEN "old level higher for {} greater than users"
             ELSE IF IsSome(new_level) /\ new_level[1] > user_level
             THEN "new level higher for {} greater than users"
             ELSE check_users_loop(Tail(users), old_users, new_users, user_level)

check_users_strict(old_users, new_users, user_level) ==
    check_users_strict_loop(users_to_check(old_users, new_users),
                            old_users, new_users, user_level)
check_users(old_users, new_users, user_level) ==
    check_users_loop(users_to_check(old_users, new_users),
                     old_users, new_users, user_level)

(* The loop over events_to_check: both tests are strict and report the     *)
(* same text.                                                              *)
check_events(old_events, new_events, user_level) ==
    LET changed == {t \in DOMAIN old_events \cup DOMAIN new_events :
                        Get(old_events, t) # Get(new_events, t)}
    IN  IF \E t \in changed :
              \/ t \in DOMAIN old_events /\ old_events[t] > user_level
              \/ t \in DOMAIN new_events /\ new_events[t] > user_level
        THEN "new level higher for {} greater than users"
        ELSE "ok"

check_power_levels(event, auth_events) ==
    IF PowerSlot \notin DOMAIN auth_events THEN "ok"
    ELSE
    LET current_power == auth_events[PowerSlot]
        user_level == get_user_power_level(event.sender, auth_events)
        old_users == number_like_map(current_power.content, "users")
        new_users == number_like_map(event.content, "users")
        \* the source reads old_events from the event and new_events from
        \* the current power levels
        old_events == number_like_map(event.content, "events")
        new_events == number_like_map(current_power.content, "events")
    IN  and_then(check_named_levels(1, current_power.content, event.content, user_level),
        and_then(IF ~old_users.ok \/ ~new_users.ok
                 THEN "invalid power level event" ELSE "ok",
        and_then(check_users(old_users.m, new_users.m, user_level),
        and_then(IF ~old_events.ok \/ ~new_events.ok
                 THEN "invalid power level event" ELSE "ok",
                 check_events(old_events.m, new_events.m, user_level)))))

(* serde_json::from_value::<ThridPartyInviteSigned>: the struct's fields   *)
(* are mixd, sender and token, all strings; other keys are ignored.        *)
parse_signed(signed_value) ==
    IF signed_value.k # "obj" THEN None
    ELSE LET o == signed_value.o
         IN  IF /\ IsSome(GetStr(o, "mixd"))
                /\ IsSome(GetStr(o, "sender"))
                /\ IsSome(GetStr(o, "token"))
             THEN Some([mixd |-> o["mixd"].s, sender |-> o["sender"].s,
                        token |-> o["token"].s])
             ELSE None

verify_third_party_invite(event, auth_events) ==
    IF "third_party_invite" \notin DOMAIN event.content THEN "not third party invite"
    ELSE
    LET third_party == event.content["third_party_invite"]
        signed_value == IF third_party.k = "obj" THEN Get(third_party.o, "signed") ELSE None
    IN  IF signed_value = None THEN "invalid third party invite"
        ELSE
        LET signed == parse_signed(signed_value[1])
        IN  IF signed = None THEN "invalid third party invite"
            ELSE IF Slot("m.room.third_party_invite", signed[1].token) \notin DOMAIN auth_events
            THEN "no third party invite event"
            ELSE IF auth_events[Slot("m.room.third_party_invite", signed[1].token)].sender
                        # event.sender
            THEN "third party invite and event sender don't match"
            ELSE IF Some(signed[1].mixd) # event.state_key
            THEN "state_key and signed mxid do not match"
            ELSE "ok"

(* The membership of `user` recorded in the auth state, as the two tuples  *)
(* (caller_in_room, caller_invited) and (target_in_room, target_banned)    *)
(* read it: content["membership"] indexes the map and aborts on a missing  *)
(* key.                                                                    *)
current_membership(auth_events, user) ==
    IF MemberSlot(user) \notin DOMAIN auth_events THEN [st |-> "ok", m |-> None]
    ELSE LET c == auth_events[MemberSlot(user)].content
         IN  IF "membership" \notin DOMAIN c THEN [st |-> "panic", m |-> None]
             ELSE IF as_str(c["membership"]) = None
             THEN [st |-> "missing membership key", m |-> None]
             ELSE [st |-> "ok", m |-> as_str(c["membership"])]

(* The creator bypass of check_membership.                                 *)
creator_bypass_banned(event, auth_events, membership, state_key) ==
    /\ membership = "join" /\ Len(event.prev_events) = 1
    /\ CreateSlot \in DOMAIN auth_events
    /\ event.prev_events[1] = auth_events[CreateSlot].event_id
    /\ GetStr(auth_events[CreateSlot].content, "creator") = Some(state_key)
    /\ current_membership(auth_events, state_key).m # Some("ban")

creator_bypass(event, auth_events, membership, state_key) ==
    /\ membership = "join" /\ Len(event.prev_events) = 1
    /\ CreateSlot \in DOMAIN auth_events
    /\ event.prev_events[1] = auth_events[CreateSlot].event_id
    /\ GetStr(auth_events[CreateSlot].content, "creator") = Some(state_key)

(* `caller_invited && membership == "leave" && state_key == &event.sender` *)
self_leave_any_target(caller_invited, membership, state_key, sender) ==
    caller_invited /\ membership = "leave"

self_leave(caller_invited, membership, state_key, sender) ==
    caller_invited /\ membership = "leave" /\ state_key = sender

(* `user_level < ban_level || user_level <= target_level`                  *)
cannot_ban_at_equal_level(user_level, ban_level, target_level) ==
    user_level < ban_level \/ user_level < target_level

cannot_ban(user_level, ban_level, target_level) ==
    user_level < ban_level \/ user_level <= target_level

(* The match on membership at the end of check_membership.                 *)
(* The "join" arm of the match on membership.                              *)
check_join_banned_allowed(sender, state_key, join_rule, banned, in_room, invited) ==
    IF sender # state_key THEN "sender and state key do not match"
    ELSE IF join_rule = "public" THEN "ok"
    ELSE IF join_rule = "invite" THEN
        IF ~in_room /\ ~invited THEN "user not invited" ELSE "ok"
    ELSE "unknown join rule"

check_join(sender, state_key, join_rule, banned, in_room, invited) ==
    IF banned THEN "user is banned"
    ELSE IF sender # state_key THEN "sender and state key do not match"
    ELSE IF join_rule = "public" THEN "ok"
    ELSE IF join_rule = "invite" THEN
        IF ~in_room /\ ~invited THEN "user not invited" ELSE "ok"
    ELSE "unknown join rule"

(* The "leave" arm of the match on membership.                             *)
check_leave_no_unban_test(sender, state_key, banned, user, ban, kick, target) ==
    IF state_key # sender /\ (user < kick \/ user <= target)
    THEN "cannot kick user"
    ELSE "ok"

check_leave(sender, state_key, banned, user, ban, kick, target) ==
    IF banned /\ user < ban THEN "cannot unban user"
    ELSE IF state_key # sender /\ (user < kick \/ user <= target)
    THEN "cannot kick user"
    ELSE "ok"

membership_rules(event, auth_events, membership, state_key, caller, target) ==
    LET caller_in_room == caller = Some("join")
        caller_invited == caller = Some("invite")
        target_in_room == target = Some("join")
        target_banned == target = Some("ban")
        join_rule == IF JoinRulesSlot \in DOMAIN auth_events
                     THEN UnwrapOr(GetStr(auth_events[JoinRulesSlot].content, "join_rule"),
                                   "invite")
                     ELSE "invite"
        user_level == get_user_power_level(event.sender, auth_events)
        target_level == get_user_power_level(state_key, auth_events)
        ban_level == UnwrapOr(get_named_level("ban", auth_events), 50)
    IN  IF /\ membership # "join"
           /\ self_leave(caller_invited, membership, state_key, event.sender)
        THEN "ok"
        ELSE IF membership # "join" /\ ~caller_in_room THEN "sender not in room"
        ELSE IF membership = "invite" THEN
            IF target_banned THEN "target is banned"
            ELSE IF target_in_room THEN "target already in room"
            ELSE IF user_level < UnwrapOr(get_named_level("invite", auth_events), 0)
            THEN "user power level is less than invite level"
            ELSE "ok"
        ELSE IF membership = "join" THEN
            check_join(event.sender, state_key, join_rule, target_banned,
                       caller_in_room, caller_invited)
        ELSE IF membership = "leave" THEN
            check_leave(event.sender, state_key, target_banned, user_level, ban_level,
                        UnwrapOr(get_named_level("kick", auth_events), 50), target_level)
        ELSE IF membership = "ban" THEN
            IF cannot_ban(user_level, ban_level, target_level)
            THEN "cannot ban user"
            ELSE "ok"
        ELSE "unknown membership"

check_membership(event, auth_events) ==
    IF "membership" \notin DOMAIN event.content THEN "panic"
    ELSE IF as_str(event.content["membership"]) = None THEN "missing membership key"
    ELSE IF event.state_key = None THEN "membership event must be state event"
    ELSE
    LET membership == as_str(event.content["membership"])[1]
        state_key == event.state_key[1]
        caller == current_membership(auth_events, event.sender)
        target == current_membership(auth_events, state_key)
    IN  IF creator_bypass(event, auth_events, membership, state_key) THEN "ok"
        ELSE and_then(caller.st, and_then(target.st,
             IF membership = "invite" /\ "third_party_invite" \in DOMAIN event.content
             THEN and_then(verify_third_party_invite(event, auth_events),
                           IF target.m = Some("ban") THEN "target is banned" ELSE "ok")
             ELSE membership_rules(event, auth_events, membership, state_key,
                                   caller.m, target.m)))

(* The part of check after the membership dispatch.                        *)
check_rest_send_first(event, auth_events) ==
    and_then(check_user_in_room(event, auth_events),
    and_then(check_can_send_event(event, auth_events),
        IF event.etype = "m.room.third_party_invite"
        THEN check_third_party_invite(event, auth_events)
        ELSE and_then(IF event.etype = "m.room.power_levels"
                      THEN check_power_levels(event, auth_events) ELSE "ok",
                      IF event.etype = "m.room.redaction"
                      THEN check_redaction(event, auth_events) ELSE "ok")))

check_rest(event, auth_events) ==
    and_then(check_user_in_room(event, auth_events),
        IF event.etype = "m.room.third_party_invite"
        THEN check_third_party_invite(event, auth_events)
        ELSE and_then(check_can_send_event(event, auth_events),
             and_then(IF event.etype = "m.room.power_levels"
                      THEN check_power_levels(event, auth_events) ELSE "ok",
                      IF event.etype = "m.room.redaction"
                      THEN check_redaction(event, auth_events) ELSE "ok")))

check(event, auth_events) ==
    LET sender_domain == get_domain_from_id(event.sender)
    IN  IF sender_domain = None THEN "invalid ID"
        ELSE IF event.etype = "m.room.create"
        THEN LET room_domain == get_domain_from_id(event.room_id)
             IN  IF room_domain = None THEN "invalid ID"
                 ELSE IF room_domain # sender_domain
                 THEN "sender and room domains do not match"
                 ELSE "ok"
        ELSE IF CreateSlot \notin DOMAIN auth_events THEN "No create event"
        ELSE IF event.etype = "m.room.aliases" /\ event.state_key = None
        THEN "alias event must be state event"
        ELSE IF event.etype = "m.room.aliases" /\ event.state_key # sender_domain
        THEN "alias state key and sender domain do not match"
        ELSE IF event.etype = "m.room.member" THEN check_membership(event, auth_events)
        ELSE check_rest(event, auth_events)

(* auth_types_for_event: the sequence of slots, or "panic" where           *)
(* content["membership"] indexes a map without that key.                   *)
auth_types_for_event_join_only(event) ==
    IF event.etype = "m.room.create" THEN <<>>
    ELSE
    LET auth_types == <<CreateSlot, PowerSlot, MemberSlot(event.sender)>>
    IN  IF event.etype # "m.room.member" THEN auth_types
        ELSE IF "membership" \notin DOMAIN event.content THEN "panic"
        ELSE LET membership == UnwrapOr(as_str(event.content["membership"]), "")
                 with_rules == IF membership = "join"
                               THEN Append(auth_types, JoinRulesSlot)
                               ELSE auth_types
             IN  IF IsSome(event.state_key)
                 THEN Append(with_rules, MemberSlot(event.state_key[1]))
                 ELSE with_rules

auth_types_for_event(event) ==
    IF event.etype = "m.room.create" THEN <<>>
    ELSE
    LET auth_types == <<CreateSlot, PowerSlot, MemberSlot(event.sender)>>
    IN  IF event.etype # "m.room.member" THEN auth_types
        ELSE IF "membership" \notin DOMAIN event.content THEN "panic"
        ELSE LET membership == UnwrapOr(as_str(event.content["membership"]), "")
                 with_rules == IF membership = "join" \/ membership = "invite"
                               THEN Append(auth_types, JoinRulesSlot)
                               ELSE auth_types
             IN  IF IsSome(event.state_key)
                 THEN Append(with_rules, MemberSlot(event.state_key[1]))
                 ELSE with_rules

-----------------------------------------------------------------------------
(* The events the specifications draw from.                                *)

Ev(id, sender, etype, state_key, prev, depth, content) ==
    [event_id |-> id, sender |-> sender, etype |-> etype, state_key |-> state_key,
     room_id |-> "!r:x", prev_events |-> prev, redacts |-> None, depth |-> depth,
     content |-> content]

Membership(m) == [membership |-> JStr(m)]

CreateEv == Ev("$c:x", "@a:x", "m.room.create", Some(""), <<>>, 1,
               [creator |-> JStr("@a:x")])

(* The value of content.third_party_invite.signed, by the keys it has.     *)
SignedMxid ==
    JObj([mxid |-> JStr("@b:x"), sender |-> JStr("@a:x"), token |-> JStr("tok")])
SignedMixd ==
    JObj([mixd |-> JStr("@b:x"), sender |-> JStr("@a:x"), token |-> JStr("tok")])
SignedNoToken ==
    JObj([mxid |-> JStr("@b:x"), sender |-> JStr("@a:x")])
ThirdParty(signed) ==
    [membership |-> JStr("invite"), third_party_invite |-> JObj([signed |-> signed])]

MemberContents ==
    { Membership("join"), Membership("invite"), Membership("leave"),
      Membership("ban"), Membership("knock"),
      Empty, [membership |-> JInt(1)],
      ThirdParty(SignedMxid), ThirdParty(SignedMixd), ThirdParty(SignedNoToken),
      [membership |-> JStr("invite"), third_party_invite |-> JObj(Empty)] }

AuthSenders == {"@a:x", "@b:x", "nocolon"}
AuthTargets == {None, Some("@a:x"), Some("@b:x")}
AuthPrevs == { <<>>, <<"$c:x">>, <<"$c:x", "$1:x">> }

MemberCandidates ==
    { Ev("$4:x", s, "m.room.member", k, p, 5, c) :
        s \in AuthSenders, k \in AuthTargets, p \in AuthPrevs, c \in MemberContents }

OtherTypes ==
    { "m.room.create", "m.room.aliases", "m.room.topic", "m.room.message",
      "m.room.third_party_invite", "m.room.redaction", "m.room.power_levels" }

OtherCandidates ==
    { Ev("$4:x", s, t, k, <<"$c:x">>, 5, Empty) :
        s \in AuthSenders, t \in OtherTypes,
        k \in {None, Some(""), Some("x"), Some("@a:x")} }

AuthCandidates == MemberCandidates \cup OtherCandidates

(* The member event of `user` in an auth state, by what its content holds. *)
MemberEv(user, content) == Ev("$m:y", user, "m.room.member", Some(user), <<>>, 2, content)
MemberOpts(user) ==
    {None} \cup { Some(MemberEv(user, c)) :
                    c \in {Membership("join"), Membership("invite"),
                           Membership("ban"), Empty} }

JoinRulesEv(rule) ==
    Ev("$2:x", "@a:x", "m.room.join_rules", Some(""), <<>>, 3, [join_rule |-> JStr(rule)])
PowerEv(content) == Ev("$3:x", "@a:x", "m.room.power_levels", Some(""), <<>>, 3, content)
ThirdPartyEv(sender) ==
    Ev("$1:x", sender, "m.room.third_party_invite", Some("tok"), <<>>, 4, Empty)

PowerContents ==
    { [users |-> JObj(("@a:x" :> JInt(100))), ban |-> JInt(50)],
      [users |-> JObj(("@a:x" :> JInt(100))), invite |-> JInt(50),
       state_default |-> JInt(0)],
      [users |-> JObj(("@b:x" :> JInt(60))), ban |-> JInt(75)],
      [users |-> JObj(("@b:x" :> JInt(10))), users_default |-> JInt(30),
       events |-> JObj(("m.room.topic" :> JInt(20)) @@ ("m.room.message" :> JInt(10))),
       events_default |-> JInt(20), state_default |-> JInt(5)] }

(* An auth state, from one choice (an Option) per field; each event sits   *)
(* in the slot of its type and state_key.  The second member is @b:x or a  *)
(* joined user whose id has no domain.                                     *)
AuthChoices ==
    [ cr : {None, Some(CreateEv)},
      ma : MemberOpts("@a:x"),
      mb : MemberOpts("@b:x") \cup {Some(MemberEv("nocolon", Membership("join")))},
      jr : {None, Some(JoinRulesEv("public")), Some(JoinRulesEv("private"))},
      pl : {None} \cup { Some(PowerEv(c)) : c \in PowerContents },
      tp : {None, Some(ThirdPartyEv("@a:x")), Some(ThirdPartyEv("@b:x"))} ]

AuthStateOf(ch) ==
    LET events == {ch[f][1] : f \in {f \in DOMAIN ch : ch[f] # None}}
    IN  [s \in {Slot(e.etype, e.state_key[1]) : e \in events} |->
            CHOOSE e \in events : Slot(e.etype, e.state_key[1]) = s]

-----------------------------------------------------------------------------
(* SpecAuth: check and auth_types_for_event on one event and auth state.   *)

(* The resolver and the walk read a check only through is_err / is_ok,     *)
(* which is the same for every order of users_to_check; the order decides  *)
(* only which of two error texts is returned.                              *)
IdleAuth ==
    /\ a_pc = "idle" /\ a_event = Empty /\ a_auth = Empty
    /\ a_result = "none" /\ a_types = "none" /\ a_order = <<>>
IdleResolve ==
    /\ r_pc = "idle" /\ r_sets = <<>> /\ r_order = <<>> /\ r_out = Empty
IdleMain ==
    /\ pc = "idle" /\ input = <<>> /\ event_map = Empty /\ parents = Empty
    /\ extremities = {} /\ roots = <<>> /\ zeroes = <<>> /\ adjacents = Empty
    /\ ordered = <<>> /\ idx = 0 /\ next_sg = 0 /\ event_to_sg = Empty
    /\ sg_to_state = Empty /\ minted = Empty /\ computed = Empty

IdleOrder ==
    /\ o_pc = "idle" /\ o_emap = Empty /\ o_events = <<>> /\ o_sorted = <<>>
IdleEvents ==
    /\ e_pc = "idle" /\ e_emap = Empty /\ e_key = <<>> /\ e_events = <<>>
    /\ e_auth = Empty
    /\ e_out = "none"
IdleSearch ==
    /\ s_pc = "idle" /\ s_agree = <<>> /\ s_res = -1

(* The orders in which a HashSet of the users the pools put in a users    *)
(* map can yield them.                                                     *)
UsersOrders == { <<"@a:x", "@b:x">>, <<"@b:x", "@a:x">> }

InitAuth ==
    /\ a_pc = "start"
    /\ a_event \in AuthCandidates
    /\ \E ch \in AuthChoices : a_auth = AuthStateOf(ch)
    /\ a_result = "none" /\ a_types = "none"
    /\ a_order \in UsersOrders
    /\ IdleResolve /\ IdleMain /\ IdleOrder /\ IdleEvents /\ IdleSearch

Check ==
    /\ a_pc = "start"
    /\ a_result' = check(a_event, a_auth)
    /\ a_pc' = "checked"
    /\ UNCHANGED <<a_event, a_auth, a_types, a_order, rvars, mvars, ovars, evars, svars>>

AuthTypes ==
    /\ a_pc = "start"
    /\ a_types' = auth_types_for_event(a_event)
    /\ a_pc' = "typed"
    /\ UNCHANGED <<a_event, a_auth, a_result, a_order, rvars, mvars, ovars, evars, svars>>

NextAuth == Check \/ AuthTypes

SpecAuth == InitAuth /\ [][NextAuth]_vars

-----------------------------------------------------------------------------
(* SpecPower: check on an event in a room whose auth state holds a         *)
(* power-levels event.  The power values are drawn by JSON kind: absent,   *)
(* integers, a float (50.7), a decimal string and a string that is no      *)
(* number.                                                                 *)

PowerUsers == {"@a:x", "@b:x"}
PowerValues ==
    {None} \cup { Some(v) : v \in {JInt(0), JInt(50), JInt(100),
                                   JFloat(507), JStr("50"), JStr("x")} }

(* A JSON object with the entry key: o[1] when o is Some.                  *)
Entry(key, o) == IF IsSome(o) THEN (key :> o[1]) ELSE Empty

(* The content of a power-levels event: the users map, state_default and   *)
(* the events map, each entry an Option.                                   *)
PowerContent(va, vb, named, ev) ==
    Entry("users", Some(JObj(Entry("@a:x", va) @@ Entry("@b:x", vb))))
    @@ Entry("state_default", named)
    @@ Entry("events", IF IsSome(ev)
                       THEN Some(JObj(Entry("m.room.topic", ev)))
                       ELSE None)

PowerAuth(content) ==
    AuthStateOf([ cr |-> Some(CreateEv),
                  ma |-> Some(MemberEv("@a:x", Membership("join"))),
                  mb |-> Some(MemberEv("@b:x", Membership("join"))),
                  jr |-> None, pl |-> Some(PowerEv(content)), tp |-> None ])

PowerCandidate(sender, etype, content) ==
    Ev("$4:x", sender, etype, Some(""), <<"$3:x">>, 5, content)

(* Either the users maps vary and nothing else is set, or the users maps   *)
(* are fixed and state_default and the events entry vary; the event is a   *)
(* power-levels event or a topic event of one of the two users.            *)
InitPower ==
    /\ a_pc = "start"
    /\ \E sender \in PowerUsers, etype \in {"m.room.power_levels", "m.room.topic"},
          o1 \in PowerValues, o2 \in PowerValues,
          n1 \in PowerValues, n2 \in PowerValues, users \in BOOLEAN :
          LET old == IF users THEN PowerContent(o1, o2, None, None)
                     ELSE PowerContent(Some(JInt(100)), Some(JInt(50)), o1, o2)
              new == IF users THEN PowerContent(n1, n2, None, None)
                     ELSE PowerContent(Some(JInt(100)), Some(JInt(50)), n1, n2)
          IN  /\ a_auth = PowerAuth(old)
              /\ a_event = PowerCandidate(sender, etype,
                               IF etype = "m.room.power_levels" THEN new ELSE Empty)
    /\ a_result = "none" /\ a_types = "none"
    /\ a_order \in UsersOrders
    /\ IdleResolve /\ IdleMain /\ IdleOrder /\ IdleEvents /\ IdleSearch

NextPower == Check

SpecPower == InitPower /\ [][NextPower]_vars

-----------------------------------------------------------------------------
(* SpecMembers: membership events of two users sent one after the other;   *)
(* each is checked against the auth state, and an accepted event becomes   *)
(* the member event of its target there, as resolve_auth_events does with  *)
(* the event it has accepted before it checks the next.                    *)

RoomPowerContents ==
    { [users |-> JObj(("@a:x" :> JInt(100)) @@ ("@b:x" :> JInt(50)))],
      [users |-> JObj(("@a:x" :> JInt(50)) @@ ("@b:x" :> JInt(100)))] }

RoomJoinRules ==
    { None, Some(JoinRulesEv("public")), Some(JoinRulesEv("invite")),
      Some(JoinRulesEv("private")) }

MemberPool ==
    { Ev("$4:x", sender, "m.room.member", Some(target), prev, 5, Membership(m)) :
        sender \in PowerUsers, target \in PowerUsers,
        prev \in { <<"$c:x">>, <<"$c:x", "$1:x">> },
        m \in {"join", "invite", "leave", "ban"} }

InitMembers ==
    /\ a_pc = "room"
    /\ \E c \in RoomPowerContents, jr \in RoomJoinRules :
          a_auth = AuthStateOf([ cr |-> Some(CreateEv),
                                 ma |-> Some(MemberEv("@a:x", Membership("join"))),
                                 mb |-> None, jr |-> jr,
                                 pl |-> Some(PowerEv(c)), tp |-> None ])
    /\ a_event = Empty
    /\ a_result = "none" /\ a_types = "none"
    /\ a_order \in UsersOrders
    /\ IdleResolve /\ IdleMain /\ IdleOrder /\ IdleEvents /\ IdleSearch

SendMember ==
    /\ a_pc = "room"
    /\ \E event \in MemberPool :
          /\ a_event' = event
          /\ a_result' = check(event, a_auth)
          /\ a_auth' = IF check(event, a_auth) = "ok"
                       THEN sm_insert(a_auth, "m.room.member", event.state_key[1], event)
                       ELSE a_auth
    /\ a_order' \in UsersOrders
    /\ UNCHANGED <<a_pc, a_types, rvars, mvars, ovars, evars, svars>>

NextMembers == SendMember

SpecMembers == InitMembers /\ [][NextMembers]_vars

-----------------------------------------------------------------------------
(* state.rs: the resolver.  State maps hold event ids; event_map gives the *)
(* events.  iter is the order in which the hash containers of this call    *)
(* yield their slots: a sequence naming every slot once.                   *)

(* The first two bytes of Sha1::from(event_id).hexdigest(), as a number:   *)
(* the digests of the model's ids differ there, so comparing these numbers *)
(* is comparing the hex strings.                                           *)
Sha1Prefix ==
    ("$1:x" :> 27995) @@ ("$2:x" :> 9589) @@ ("$3:x" :> 51294) @@ ("$4:x" :> 33525) @@
    ("$c:x" :> 58462) @@ ("$p1:x" :> 43332) @@ ("$p2:x" :> 44646) @@
    ("$j1:x" :> 56127) @@ ("$j2:x" :> 30214) @@ ("$ma:x" :> 44194) @@
    ("$mb1:x" :> 26487) @@ ("$mb2:x" :> 36243) @@ ("$mb3:x" :> 48606) @@
    ("$t1:x" :> 34828) @@ ("$t2:x" :> 45314) @@
    ("@1:a" :> 58761) @@ ("@2:a" :> 42212) @@ ("@3:b" :> 51944)

(* The sort key of order_events: (-(depth), sha1 hex digest).              *)
sort_key_less_ascending(a, b) ==
    \/ a.depth < b.depth
    \/ a.depth = b.depth /\ Sha1Prefix[a.event_id] < Sha1Prefix[b.event_id]

sort_key_less(a, b) ==
    \/ -a.depth < -b.depth
    \/ a.depth = b.depth /\ Sha1Prefix[a.event_id] < Sha1Prefix[b.event_id]

order_events(events, emap) ==
    SortSeq(events, LAMBDA x, y : sort_key_less(emap[x], emap[y]))

Reverse(s) == [i \in 1..Len(s) |-> s[Len(s) + 1 - i]]

PutSlot(map, slot, v) == sm_insert(map, slot[1], slot[2], v)

(* A StateMap of ids seen as the StateMap of event references it stands for. *)
AuthOf(map, emap) == [s \in DOMAIN map |-> emap[map[s]]]

(* StateMap::add_or_remove(t, s, v): [map, prev].                          *)
add_or_remove(map, slot, v) ==
    IF slot \notin DOMAIN map THEN [map |-> PutSlot(map, slot, v), prev |-> None]
    ELSE IF map[slot] = v THEN [map |-> map, prev |-> None]
    ELSE [map |-> PutSlot(map, slot, v), prev |-> Some(map[slot])]

(* The loop of resolve_auth_events from position i on: the id of the event *)
(* returned, or "panic" when check aborts.                                 *)
RECURSIVE auth_events_loop(_, _, _, _, _, _)
auth_events_step_skip(key, events, i, prev_event, new_auth_events, emap, r) ==
    IF r = "panic" THEN "panic"
    ELSE IF r # "ok"
    THEN auth_events_loop(key, events, i + 1, prev_event, new_auth_events, emap)
    ELSE auth_events_loop(key, events, i + 1, events[i], new_auth_events, emap)

auth_events_step(key, events, i, prev_event, new_auth_events, emap, r) ==
    IF r = "panic" THEN "panic"
    ELSE IF r # "ok" THEN prev_event
    ELSE auth_events_loop(key, events, i + 1, events[i], new_auth_events, emap)

auth_events_loop(key, events, i, prev_event, new_auth_events, emap) ==
    IF i > Len(events) THEN prev_event
    ELSE auth_events_step(key, events, i, prev_event,
                          PutSlot(new_auth_events, key, prev_event), emap,
                          check(emap[events[i]],
                                AuthOf(PutSlot(new_auth_events, key, prev_event), emap)))

resolve_auth_events(key, events, auth_events, emap) ==
    LET sorted == Reverse(order_events(events, emap))
    IN  auth_events_loop(key, sorted, 2, sorted[1], auth_events, emap)

(* The loop of resolve_normal_events from position i on.                   *)
RECURSIVE normal_events_loop(_, _, _, _)
normal_events_step(events, i, auth_events, emap, r) ==
    IF r = "panic" THEN "panic"
    ELSE IF r = "ok" THEN events[i]
    ELSE normal_events_loop(events, i + 1, auth_events, emap)

normal_events_loop(events, i, auth_events, emap) ==
    IF i > Len(events) THEN events[Len(events)]
    ELSE normal_events_step(events, i, auth_events, emap,
                            check(emap[events[i]], AuthOf(auth_events, emap)))

resolve_normal_events(events, auth_events, emap) ==
    normal_events_loop(order_events(events, emap), 1, auth_events, emap)

(* One entry ((t, s), eid) of a later input map, in the split loop.        *)
split_entry_known_slots(st, slot, eid) ==
    IF slot \in DOMAIN st.conflicted
    THEN IF \E j \in 1..Len(st.conflicted[slot]) : st.conflicted[slot][j] = eid
         THEN st
         ELSE [st EXCEPT !.conflicted[slot] = Append(@, eid)]
    ELSE IF slot \notin DOMAIN st.unconflicted THEN st
    ELSE LET r == add_or_remove(st.unconflicted, slot, eid)
         IN  IF IsSome(r.prev)
             THEN [unconflicted |-> r.map,
                   conflicted |-> PutSlot(st.conflicted, slot, <<eid, r.prev[1]>>)]
             ELSE [unconflicted |-> r.map, conflicted |-> st.conflicted]

split_entry(st, slot, eid) ==
    IF slot \in DOMAIN st.conflicted
    THEN IF \E j \in 1..Len(st.conflicted[slot]) : st.conflicted[slot][j] = eid
         THEN st
         ELSE [st EXCEPT !.conflicted[slot] = Append(@, eid)]
    ELSE LET r == add_or_remove(st.unconflicted, slot, eid)
         IN  IF IsSome(r.prev)
             THEN [unconflicted |-> r.map,
                   conflicted |-> PutSlot(st.conflicted, slot, <<eid, r.prev[1]>>)]
             ELSE [unconflicted |-> r.map, conflicted |-> st.conflicted]

(* The slots of a map in iteration order.                                  *)
IterSlots(map, iter) == SelectSeq(iter, LAMBDA s : s \in DOMAIN map)

RECURSIVE split_map(_, _, _, _)
split_map(st, map, slots, i) ==
    IF i > Len(slots) THEN st
    ELSE split_map(split_entry(st, slots[i], map[slots[i]]), map, slots, i + 1)

RECURSIVE split_sets(_, _, _, _)
split_sets(st, state_sets, n, iter) ==
    IF n > Len(state_sets) THEN st
    ELSE split_sets(split_map(st, state_sets[n], IterSlots(state_sets[n], iter), 1),
                    state_sets, n + 1, iter)

(* auth_events_types: the union of auth_types_for_event over the events of *)
(* conflicted; [panic, types].                                             *)
auth_events_types(conflicted, emap) ==
    LET evs == UNION { {conflicted[s][j] : j \in 1..Len(conflicted[s])} :
                        s \in DOMAIN conflicted }
    IN  [panic |-> \E e \in evs : auth_types_for_event(emap[e]) = "panic",
         types |-> UNION { LET ts == auth_types_for_event(emap[e])
                           IN  IF ts = "panic" THEN {}
                               ELSE {ts[j] : j \in 1..Len(ts)} : e \in evs }]

(* resolved_state.insert(key, ev.event_id); auth_events.insert(key, ev).   *)
insert_resolved(st, key, ev) ==
    IF ev = "panic" THEN [st EXCEPT !.status = "panic"]
    ELSE [status |-> "ok", resolved |-> PutSlot(st.resolved, key, ev),
          auth |-> PutSlot(st.auth, key, ev)]

(* resolved_state.insert(key, ev.event_id) of the last loop.               *)
insert_normal(st, key, ev) ==
    IF ev = "panic" THEN [st EXCEPT !.status = "panic"]
    ELSE [st EXCEPT !.resolved = PutSlot(@, key, ev)]

(* A loop `for (key, events) in conflicted.iter_..()` that resolves each   *)
(* slot with resolve_auth_events against `snapshot` and inserts the event  *)
(* into resolved_state and auth_events; st is [status, resolved, auth].    *)
RECURSIVE auth_stage(_, _, _, _, _, _)
auth_stage_live(st, slots, i, conflicted, snapshot, emap) ==
    IF i > Len(slots) \/ st.status # "ok" THEN st
    ELSE auth_stage(insert_resolved(st, slots[i],
                        resolve_auth_events(slots[i], conflicted[slots[i]], st.auth, emap)),
                    slots, i + 1, conflicted, snapshot, emap)

auth_stage(st, slots, i, conflicted, snapshot, emap) ==
    IF i > Len(slots) \/ st.status # "ok" THEN st
    ELSE auth_stage(insert_resolved(st, slots[i],
                        resolve_auth_events(slots[i], conflicted[slots[i]], snapshot, emap)),
                    slots, i + 1, conflicted, snapshot, emap)

(* The loop over conflicted.iter_non_members().                            *)
RECURSIVE normal_stage(_, _, _, _, _)
normal_stage(st, slots, i, conflicted, emap) ==
    IF i > Len(slots) \/ st.status # "ok" THEN st
    ELSE IF slots[i] \in DOMAIN st.resolved
    THEN normal_stage(st, slots, i + 1, conflicted, emap)
    ELSE normal_stage(insert_normal(st, slots[i],
                          resolve_normal_events(conflicted[slots[i]], st.auth, emap)),
                      slots, i + 1, conflicted, emap)

(* StateMap's specialised iterators, as the slots they yield.              *)
iter_join_rules(map, iter) ==
    SelectSeq(IterSlots(map, iter), LAMBDA s : s[1] = "m.room.join_rules")
iter_members(map, iter) ==
    SelectSeq(IterSlots(map, iter), LAMBDA s : s[1] = "m.room.member")
iter_non_members(map, iter) ==
    SelectSeq(IterSlots(map, iter),
              LAMBDA s : s[1] \notin {"m.room.member", "m.room.join_rules"} /\ s # PowerSlot)

(* The two maps the stages work on: auth_events, filled from unconflicted, *)
(* and resolved_state, which starts as unconflicted.                       *)
start_state_from_auth(unconflicted, types) ==
    LET auth0 == [s \in types \cap DOMAIN unconflicted |-> unconflicted[s]]
    IN  [status |-> "ok", resolved |-> auth0, auth |-> auth0]

start_state(unconflicted, types) ==
    [status |-> "ok", resolved |-> unconflicted,
     auth |-> [s \in types \cap DOMAIN unconflicted |-> unconflicted[s]]]

(* The stages of resolve_state, each on the [status, resolved, auth] the    *)
(* stage before it left; the snapshot of a stage is the auth_events it     *)
(* starts with.                                                            *)
power_levels_stage(st, conflicted, emap) ==
    IF PowerSlot \in DOMAIN conflicted
    THEN auth_stage(st, <<PowerSlot>>, 1, conflicted, st.auth, emap)
    ELSE st

join_rules_stage(st, conflicted, emap, iter) ==
    auth_stage(st, iter_join_rules(conflicted, iter), 1, conflicted, st.auth, emap)

members_stage(st, conflicted, emap, iter) ==
    auth_stage(st, iter_members(conflicted, iter), 1, conflicted, st.auth, emap)

non_members_stage(st, conflicted, emap, iter) ==
    normal_stage(st, iter_non_members(conflicted, iter), 1, conflicted, emap)

resolved_of(st) ==
    IF st.status # "ok" THEN [status |-> "panic", map |-> Empty]
    ELSE [status |-> "ok", map |-> st.resolved]

(* The stages of resolve_state after the split.                            *)
resolve_conflicts(unconflicted, conflicted, emap, iter) ==
    LET types == auth_events_types(conflicted, emap)
    IN  IF types.panic THEN [status |-> "panic", map |-> Empty]
        ELSE resolved_of(
                non_members_stage(
                    members_stage(
                        join_rules_stage(
                            power_levels_stage(start_state(unconflicted, types.types),
                                               conflicted, emap),
                            conflicted, emap, iter),
                        conflicted, emap, iter),
                    conflicted, emap, iter))

resolve_split(split, emap, iter) ==
    resolve_conflicts(split.unconflicted, split.conflicted, emap, iter)

(* resolve_state(state_sets, event_map): [status, map].                    *)
resolve_state_empty_below_two(state_sets, emap, iter) ==
    IF Len(state_sets) <= 1 THEN [status |-> "ok", map |-> Empty]
    ELSE resolve_split(split_sets([unconflicted |-> state_sets[1], conflicted |-> Empty],
                                  state_sets, 2, iter),
                       emap, iter)

resolve_state(state_sets, emap, iter) ==
    IF Len(state_sets) = 0 THEN [status |-> "ok", map |-> Empty]
    ELSE resolve_split(split_sets([unconflicted |-> state_sets[1], conflicted |-> Empty],
                                  state_sets, 2, iter),
                       emap, iter)

-----------------------------------------------------------------------------
(* SpecResolve: resolve_state on a list of state maps over a fixed room.   *)

MaxSets == 2

ResolveEvents ==
    ("$c:x" :> CreateEv) @@
    ("$ma:x" :> Ev("$ma:x", "@a:x", "m.room.member", Some("@a:x"), <<"$c:x">>, 2,
                   Membership("join"))) @@
    ("$p1:x" :> Ev("$p1:x", "@a:x", "m.room.power_levels", Some(""), <<"$ma:x">>, 3,
                   [users |-> JObj(("@a:x" :> JInt(100)))])) @@
    ("$p2:x" :> Ev("$p2:x", "@a:x", "m.room.power_levels", Some(""), <<"$p1:x">>, 4,
                   [users |-> JObj(("@a:x" :> JInt(100)) @@ ("@b:x" :> JInt(50)))])) @@
    ("$mb1:x" :> Ev("$mb1:x", "@b:x", "m.room.member", Some("@b:x"), <<"$p1:x">>, 5,
                    Membership("join"))) @@
    ("$mb2:x" :> Ev("$mb2:x", "@b:x", "m.room.member", Some("@b:x"), <<"$mb1:x">>, 6,
                    Membership("leave"))) @@
    ("$mb3:x" :> Ev("$mb3:x", "@b:x", "m.room.member", Some("@b:x"), <<"$mb1:x">>, 6,
                    Empty)) @@
    ("$t1:x" :> Ev("$t1:x", "@a:x", "m.room.topic", Some(""), <<"$p1:x">>, 5, Empty)) @@
    ("$t2:x" :> Ev("$t2:x", "@b:x", "m.room.topic", Some(""), <<"$mb1:x">>, 5, Empty)) @@
    ("$1:x" :> Ev("$1:x", "@a:x", "m.room.member", Some("@a:x"), <<"$ma:x">>, 6,
                  Membership("leave"))) @@
    ("$3:x" :> Ev("$3:x", "@a:x", "m.room.member", Some("@b:x"), <<"$mb1:x">>, 6,
                  Membership("ban"))) @@
    ("$j1:x" :> Ev("$j1:x", "@a:x", "m.room.join_rules", Some(""), <<"$ma:x">>, 3,
                   [join_rule |-> JStr("public")])) @@
    ("$j2:x" :> Ev("$j2:x", "@a:x", "m.room.join_rules", Some(""), <<"$j1:x">>, 4,
                   [join_rule |-> JStr("invite")])) @@
    ("$2:x" :> Ev("$2:x", "@b:x", "m.room.member", Some("@b:x"), <<"$mb2:x">>, 7,
                  Membership("join")))

TopicSlot == Slot("m.room.topic", "")

(* The slot an event of the room sets.                                     *)
SlotOf(e) == Slot(e.etype, e.state_key[1])

(* A state map of the room, from one choice per slot: the id of one of the *)
(* events that set the slot, or "-" for a slot the map lacks.              *)
ResolveChoices ==
    [ room : {"-", "$c:x"},
      pl : {"-", "$p1:x", "$p2:x"},
      mb : {"-", "$mb1:x", "$mb2:x", "$mb3:x"},
      tp : {"-", "$t1:x", "$t2:x"} ]

StateMapOf(ch) ==
    LET ids == {ch[f] : f \in DOMAIN ch} \ {"-"}
        all == IF ch.room = "-" THEN ids ELSE ids \cup {"$ma:x"}
    IN  [s \in {SlotOf(ResolveEvents[id]) : id \in all} |->
            CHOOSE id \in all : SlotOf(ResolveEvents[id]) = s]

ResolveMaps == { StateMapOf(ch) : ch \in ResolveChoices }

ResolveSlots ==
    <<CreateSlot, MemberSlot("@a:x"), PowerSlot, MemberSlot("@b:x"), TopicSlot>>

(* The iteration orders tried: one order of the slots and its reverse.     *)
IterOrders(slots) == {slots, Reverse(slots)}

InitResolve ==
    /\ r_pc = "start"
    /\ \E n \in 0..MaxSets : r_sets \in [1..n -> ResolveMaps]
    /\ r_order \in IterOrders(ResolveSlots)
    /\ r_out = Empty
    /\ IdleAuth /\ IdleMain /\ IdleOrder /\ IdleEvents /\ IdleSearch

Resolve ==
    /\ r_pc = "start"
    /\ r_out' = resolve_state(r_sets, ResolveEvents, r_order)
    /\ r_pc' = "done"
    /\ UNCHANGED <<r_sets, r_order, avars, mvars, ovars, evars, svars>>

NextResolve == Resolve

SpecResolve == InitResolve /\ [][NextResolve]_vars

-----------------------------------------------------------------------------
(* SpecStages: resolve_state on two state maps of a room in which the      *)
(* power levels, the join rules and the memberships of both users may      *)
(* conflict.                                                               *)

StageChoices ==
    [ ma : {"$ma:x", "$1:x"},
      pl : {"-", "$p1:x", "$p2:x"},
      jr : {"-", "$j1:x", "$j2:x"},
      mb : {"-", "$mb1:x", "$mb2:x", "$3:x", "$2:x"} ]

StageMapOf(ch) ==
    LET ids == ({ch[f] : f \in DOMAIN ch} \ {"-"}) \cup {"$c:x"}
    IN  [s \in {SlotOf(ResolveEvents[id]) : id \in ids} |->
            CHOOSE id \in ids : SlotOf(ResolveEvents[id]) = s]

StageMaps == { StageMapOf(ch) : ch \in StageChoices }

StageSlots ==
    <<CreateSlot, MemberSlot("@a:x"), PowerSlot, JoinRulesSlot, MemberSlot("@b:x")>>

InitStages ==
    /\ r_pc = "start"
    /\ r_sets \in [1..2 -> StageMaps]
    /\ r_order \in IterOrders(StageSlots)
    /\ r_out = Empty
    /\ IdleAuth /\ IdleMain /\ IdleOrder /\ IdleEvents /\ IdleSearch

NextStages == Resolve

SpecStages == InitStages /\ [][NextStages]_vars

-----------------------------------------------------------------------------
(* SpecOrder: order_events on a list of events with distinct ids; the ids  *)
(* are those of the repository's test_order_events and one more.           *)

MaxDepth == 2

OrderIds == {"@1:a", "@2:a", "@3:b", "$1:x"}

OrderEvent(id, depth) == Ev(id, "", "", None, <<>>, depth, Empty)

(* The lists of distinct ids.                                              *)
OrderLists ==
    UNION { { f \in [1..n -> OrderIds] : \A i, j \in 1..n : i # j => f[i] # f[j] } :
            n \in 0..Cardinality(OrderIds) }

InitOrder ==
    /\ o_pc = "start"
    /\ \E d \in [OrderIds -> 1..MaxDepth] :
            o_emap = [id \in OrderIds |-> OrderEvent(id, d[id])]
    /\ o_events \in OrderLists
    /\ o_sorted = <<>>
    /\ IdleAuth /\ IdleResolve /\ IdleMain /\ IdleEvents /\ IdleSearch

OrderEvents ==
    /\ o_pc = "start"
    /\ o_sorted' = order_events(o_events, o_emap)
    /\ o_pc' = "sorted"
    /\ UNCHANGED <<o_emap, o_events, avars, rvars, mvars, evars, svars>>

NextOrder == OrderEvents

SpecOrder == InitOrder /\ [][NextOrder]_vars

-----------------------------------------------------------------------------
(* SpecEvents: resolve_auth_events on the candidates of the member slot of *)
(* @b:x, against auth events that hold the create event, the membership of *)
(* @a:x and possibly a join rule.                                          *)

MaxEvents == 3

(* What the candidates are: member events of @b:x, by id.                  *)
CandidatePayloads ==
    ("$mb1:x" :> [sender |-> "@b:x", state_key |-> Some("@b:x"),
                 content |-> Membership("join")]) @@
    ("$mb2:x" :> [sender |-> "@b:x", state_key |-> Some("@b:x"),
                 content |-> Membership("leave")]) @@
    ("$mb3:x" :> [sender |-> "@a:x", state_key |-> Some("@b:x"),
                 content |-> Membership("join")]) @@
    ("$1:x" :> [sender |-> "@a:x", state_key |-> Some("@b:x"),
                 content |-> Membership("invite")]) @@
    ("$2:x" :> [sender |-> "@b:x", state_key |-> Some("@b:x"),
                 content |-> Empty])

CandidateIds == DOMAIN CandidatePayloads

CandidateEvent(id, depth) ==
    Ev(id, CandidatePayloads[id].sender, "m.room.member",
       CandidatePayloads[id].state_key, <<"$ma:x">>, depth, CandidatePayloads[id].content)

(* The events the auth events may hold.                                    *)
SnapshotEvents ==
    ("$c:x" :> CreateEv) @@
    ("$ma:x" :> Ev("$ma:x", "@a:x", "m.room.member", Some("@a:x"), <<"$c:x">>, 2,
                   Membership("join"))) @@
    ("$j1:x" :> Ev("$j1:x", "@a:x", "m.room.join_rules", Some(""), <<"$ma:x">>, 3,
                   [join_rule |-> JStr("public")]))

Snapshots ==
    { (CreateSlot :> "$c:x") @@ (MemberSlot("@a:x") :> "$ma:x"),
      (CreateSlot :> "$c:x") @@ (MemberSlot("@a:x") :> "$ma:x") @@
          (JoinRulesSlot :> "$j1:x") }

(* The lists of one to MaxEvents different candidates.                     *)
CandidateLists ==
    UNION { { f \in [1..n -> CandidateIds] :
                \A i, j \in 1..n : i # j => f[i] # f[j] } : n \in 1..MaxEvents }

InitEvents ==
    /\ e_pc = "start"
    /\ \E d \in [CandidateIds -> 1..MaxDepth] :
            e_emap = SnapshotEvents @@
                     [id \in CandidateIds |-> CandidateEvent(id, 4 + d[id])]
    /\ e_key = MemberSlot("@b:x")
    /\ e_events \in CandidateLists
    /\ e_auth \in Snapshots
    /\ e_out = "none"
    /\ IdleAuth /\ IdleResolve /\ IdleMain /\ IdleOrder /\ IdleSearch

ResolveAuthEvents ==
    /\ e_pc = "start"
    /\ e_out' = resolve_auth_events(e_key, e_events, e_auth, e_emap)
    /\ e_pc' = "done"
    /\ UNCHANGED <<e_emap, e_key, e_events, e_auth, avars, rvars, mvars, ovars, svars>>

NextEvents == ResolveAuthEvents

SpecEvents == InitEvents /\ [][NextEvents]_vars

-----------------------------------------------------------------------------
(* main.rs: reading the events, get_ordered_fast and the state walk.       *)

SetOf(seq) == {seq[j] : j \in 1..Len(seq)}

(* The loop over the lines of the input, from line i on; st is             *)
(* [event_map, parents, extremities, roots].                               *)
RECURSIVE read_events(_, _, _)
read_events(lines, i, st) ==
    IF i > Len(lines) THEN st
    ELSE
    LET event == lines[i]
        prevs == SetOf(event.prev_events)
        parents1 == [p \in DOMAIN st.parents \cup prevs |->
                        (IF p \in DOMAIN st.parents THEN st.parents[p] ELSE {})
                        \cup (IF p \in prevs THEN {event.event_id} ELSE {})]
        removed == st.extremities \ prevs
    IN  read_events(lines, i + 1,
            [event_map |-> [id \in DOMAIN st.event_map \cup {event.event_id} |->
                               IF id = event.event_id THEN event ELSE st.event_map[id]],
             parents |-> parents1,
             extremities |-> IF event.event_id \notin DOMAIN parents1
                             THEN removed \cup {event.event_id} ELSE removed,
             roots |-> IF event.prev_events = <<>>
                       THEN Append(st.roots, event.event_id) ELSE st.roots])

(* adjacents of get_ordered_fast: the number of children of each event.    *)
initial_adjacents(emap, prnts) ==
    [key \in DOMAIN emap |-> IF key \in DOMAIN prnts THEN Cardinality(prnts[key]) ELSE 0]

(* The loop over the prev_events of a popped event, from position j on;    *)
(* st is [zeroes, adjacents].  An entry of adjacents that is decremented   *)
(* is at least 1: it counts the children of p, and the popped event is one.*)
RECURSIVE visit_prev_events(_, _, _)
visit_prev_events(prev_events, j, st) ==
    IF j > Len(prev_events) THEN st
    ELSE
    LET p == prev_events[j]
        a == IF p \in DOMAIN st.adjacents THEN st.adjacents[p] - 1 ELSE 1
        decremented == IF p \in DOMAIN st.adjacents
                       THEN [st.adjacents EXCEPT ![p] = a] ELSE st.adjacents
    IN  visit_prev_events(prev_events, j + 1,
            IF a = 0
            THEN [zeroes |-> Append(st.zeroes, p),
                  adjacents |-> [k \in DOMAIN decremented \ {p} |-> decremented[k]]]
            ELSE [zeroes |-> st.zeroes, adjacents |-> decremented])

(* One iteration of `while let Some(event_id) = zeroes.pop()`; st is       *)
(* [zeroes, adjacents, ordered].                                           *)
pop_zero(st, emap) ==
    LET event_id == st.zeroes[Len(st.zeroes)]
        visited == visit_prev_events(emap[event_id].prev_events, 1,
                       [zeroes |-> SubSeq(st.zeroes, 1, Len(st.zeroes) - 1),
                        adjacents |-> st.adjacents])
    IN  [zeroes |-> visited.zeroes, adjacents |-> visited.adjacents,
         ordered |-> Append(st.ordered, event_id)]

(* A new state group id.                                                   *)
mint_group_same(n) == n

mint_group(n) == n + 1

(* current_sg after the test on state_key: a state event never reuses.     *)
reuse_group_always(event, current_sg) == current_sg

reuse_group_never(event, current_sg) == None

reuse_group(event, current_sg) ==
    IF IsSome(event.state_key) THEN None ELSE current_sg

(* The state sets of the predecessors that have a state group, in the      *)
(* order of prev_events.                                                   *)
state_sets_of(prev_events, e2sg, sg2st) ==
    LET known == SelectSeq(prev_events, LAMBDA pid : pid \in DOMAIN e2sg)
    IN  [j \in 1..Len(known) |-> sg2st[e2sg[known[j]]]]

resolved_prev(r) == [status |-> r.status, state |-> r.map, current_sg |-> None]

(* The predecessor state of an event: [status, state, current_sg].         *)
prev_state_resolve_one(event, e2sg, sg2st, emap, iter) ==
    IF Len(event.prev_events) > 0
    THEN IF \E pid \in SetOf(event.prev_events) :
                pid \in DOMAIN e2sg /\ e2sg[pid] \notin DOMAIN sg2st
         THEN [status |-> "panic", state |-> Empty, current_sg |-> None]
         ELSE resolved_prev(resolve_state(state_sets_of(event.prev_events, e2sg, sg2st),
                                          emap, iter))
    ELSE IF Len(event.prev_events) = 1
    THEN IF event.prev_events[1] \notin DOMAIN e2sg
         THEN [status |-> "panic", state |-> Empty, current_sg |-> None]
         ELSE IF e2sg[event.prev_events[1]] \notin DOMAIN sg2st
         THEN [status |-> "panic", state |-> Empty, current_sg |-> None]
         ELSE [status |-> "ok", state |-> sg2st[e2sg[event.prev_events[1]]],
               current_sg |-> Some(e2sg[event.prev_events[1]])]
    ELSE [status |-> "ok", state |-> Empty, current_sg |-> None]
prev_state(event, e2sg, sg2st, emap, iter) ==
    IF Len(event.prev_events) > 1
    THEN IF \E pid \in SetOf(event.prev_events) :
                pid \in DOMAIN e2sg /\ e2sg[pid] \notin DOMAIN sg2st
         THEN [status |-> "panic", state |-> Empty, current_sg |-> None]
         ELSE resolved_prev(resolve_state(state_sets_of(event.prev_events, e2sg, sg2st),
                                          emap, iter))
    ELSE IF Len(event.prev_events) = 1
    THEN IF event.prev_events[1] \notin DOMAIN e2sg
         THEN [status |-> "panic", state |-> Empty, current_sg |-> None]
         ELSE IF e2sg[event.prev_events[1]] \notin DOMAIN sg2st
         THEN [status |-> "panic", state |-> Empty, current_sg |-> None]
         ELSE [status |-> "ok", state |-> sg2st[e2sg[event.prev_events[1]]],
               current_sg |-> Some(e2sg[event.prev_events[1]])]
    ELSE [status |-> "ok", state |-> Empty, current_sg |-> None]

(* The body of the walk's loop for one event, given the predecessor state; *)
(* st is [status, next_sg, event_to_sg, sg_to_state, minted, computed].    *)
store_event_prev_only(st, event, prev) ==
    LET eid == event.event_id
        state == prev.state
        current_sg == reuse_group(event, prev.current_sg)
        sg == mint_group(st.next_sg)
    IN  IF prev.status # "ok" THEN [st EXCEPT !.status = "panic"]
        ELSE IF IsSome(current_sg)
        THEN [st EXCEPT !.event_to_sg = (eid :> current_sg[1]) @@ @,
                        !.minted = (eid :> FALSE) @@ @,
                        !.computed = (eid :> state) @@ @]
        ELSE [st EXCEPT !.next_sg = sg,
                        !.event_to_sg = (eid :> sg) @@ @,
                        !.sg_to_state = (sg :> state) @@ @,
                        !.minted = (eid :> TRUE) @@ @,
                        !.computed = (eid :> state) @@ @]
store_event(st, event, prev) ==
    LET eid == event.event_id
        state == IF IsSome(event.state_key)
                 THEN sm_insert(prev.state, event.etype, event.state_key[1], eid)
                 ELSE prev.state
        current_sg == reuse_group(event, prev.current_sg)
        sg == mint_group(st.next_sg)
    IN  IF prev.status # "ok" THEN [st EXCEPT !.status = "panic"]
        ELSE IF IsSome(current_sg)
        THEN [st EXCEPT !.event_to_sg = (eid :> current_sg[1]) @@ @,
                        !.minted = (eid :> FALSE) @@ @,
                        !.computed = (eid :> state) @@ @]
        ELSE [st EXCEPT !.next_sg = sg,
                        !.event_to_sg = (eid :> sg) @@ @,
                        !.sg_to_state = (sg :> state) @@ @,
                        !.minted = (eid :> TRUE) @@ @,
                        !.computed = (eid :> state) @@ @]

walk_event(st, event, emap, iter) ==
    store_event(st, event,
                prev_state(event, st.event_to_sg, st.sg_to_state, emap, iter))

(* get_ordered_fast as a whole, from a given order of the extremities:     *)
(* the loop until zeroes is empty, the assertion, the reversal.            *)
RECURSIVE order_from(_, _)
order_from(st, emap) ==
    IF st.zeroes = <<>> THEN st.ordered ELSE order_from(pop_zero(st, emap), emap)

ordered_or_panic(o, emap) ==
    IF Len(o) # Cardinality(DOMAIN emap)
    THEN [status |-> "panic", ordered |-> o]
    ELSE [status |-> "ok", ordered |-> Reverse(o)]

get_ordered_fast(emap, zeroes0, prnts) ==
    ordered_or_panic(order_from([zeroes |-> zeroes0,
                                 adjacents |-> initial_adjacents(emap, prnts),
                                 ordered |-> <<>>], emap),
                     emap)

(* The walk `for eid in &ordered` as a whole, from position i on.          *)
RECURSIVE walk_from(_, _, _, _, _)
walk_from(st, order, i, emap, iter) ==
    IF st.status # "ok" \/ i > Len(order) THEN st
    ELSE walk_from(walk_event(st, emap[order[i]], emap, iter), order, i + 1, emap, iter)

(* What a run assigns: the state map of every event, or an abort.          *)
outcome_of(status, content) ==
    IF status = "ok" THEN [status |-> "ok", content |-> content]
    ELSE [status |-> "panic", content |-> Empty]

outcome_of_walk(st) == outcome_of(st.status, st.computed)

walk_outcome(o, emap, iter) ==
    IF o.status # "ok" THEN outcome_of("panic", Empty)
    ELSE outcome_of_walk(walk_from([status |-> "ok", next_sg |-> 0, event_to_sg |-> Empty,
                                    sg_to_state |-> Empty, minted |-> Empty,
                                    computed |-> Empty],
                                   o.ordered, 1, emap, iter))

(* A run of main on the lines of a file, the extremities taken in the      *)
(* order zeroes0 and the slots iterated in the order iter.                 *)
run_main(rd, zeroes0, iter) ==
    walk_outcome(get_ordered_fast(rd.event_map, zeroes0, rd.parents), rd.event_map, iter)

-----------------------------------------------------------------------------
(* Spec: main on an input file of three events.  An event may name, as its *)
(* predecessors, the events before it in the numbering (so the graph is    *)
(* acyclic) and one event that is not in the file; the file lists the      *)
(* events in either direction.                                             *)

MaxPrev == 2

EngineIds == <<"$1:x", "$2:x", "$3:x">>
MissingId == "$m:y"

(* What the i-th event may be: [sender, etype, state_key, content].        *)
Payload(sender, etype, state_key, content) ==
    [sender |-> sender, etype |-> etype, state_key |-> state_key, content |-> content]
Message == Payload("@a:x", "m.room.message", None, Empty)
Payloads(i) ==
    IF i = 1 THEN { Message,
                    Payload("@b:x", "m.room.member", Some("@b:x"), Membership("join")),
                    Payload("@a:x", "m.room.create", Some(""), [creator |-> JStr("@a:x")]) }
    ELSE IF i = 2 THEN { Message,
                    Payload("@b:x", "m.room.member", Some("@b:x"), Membership("leave")),
                    Payload("@b:x", "m.room.member", Some("@b:x"), Empty) }
    ELSE { Message, Payload("@a:x", "m.room.topic", Some(""), Empty) }

PrevChoices(i) ==
    UNION { [1..n -> {EngineIds[j] : j \in 1..(i - 1)} \cup {MissingId}] : n \in 0..MaxPrev }

(* depth: one more than the deepest predecessor in the file.               *)
DepthAfter(prev, before) ==
    LET ds == {0} \cup {before[j].depth : j \in {j \in 1..Len(before) :
                                                  before[j].event_id \in SetOf(prev)}}
    IN  1 + CHOOSE d \in ds : \A x \in ds : x <= d

EventsAt(i, before) ==
    { Ev(EngineIds[i], pl.sender, pl.etype, pl.state_key, prev,
         DepthAfter(prev, before), pl.content) :
        pl \in Payloads(i), prev \in PrevChoices(i) }

(* The files that hold the three events, one per line.                     *)
InputsOf(e1, e2, e3) == { <<e1, e2, e3>>, <<e3, e2, e1>> }

EngineSlots == <<CreateSlot, MemberSlot("@b:x"), TopicSlot>>

(* The sequences that list the elements of S once each.                    *)
Orderings(S) ==
    { f \in [1..Cardinality(S) -> S] : \A i, j \in DOMAIN f : i # j => f[i] # f[j] }

Init ==
    /\ pc = "read"
    /\ \E e1 \in EventsAt(1, <<>>) : \E e2 \in EventsAt(2, <<e1>>) :
            \E e3 \in EventsAt(3, <<e1, e2>>) : input \in InputsOf(e1, e2, e3)
    /\ event_map = Empty /\ parents = Empty /\ extremities = {} /\ roots = <<>>
    /\ zeroes = <<>> /\ adjacents = Empty /\ ordered = <<>>
    /\ idx = 0 /\ next_sg = 0 /\ event_to_sg = Empty /\ sg_to_state = Empty
    /\ minted = Empty /\ computed = Empty
    /\ IdleAuth /\ IdleResolve /\ IdleOrder /\ IdleEvents /\ IdleSearch

(* main.rs 56-85                                                           *)
ReadEvents ==
    /\ pc = "read"
    /\ LET st == read_events(input, 1, [event_map |-> Empty, parents |-> Empty,
                                        extremities |-> {}, roots |-> <<>>])
       IN  /\ event_map' = st.event_map
           /\ parents' = st.parents
           /\ extremities' = st.extremities
           /\ roots' = st.roots
    /\ pc' = "order"
    /\ UNCHANGED <<input, zeroes, adjacents, ordered, idx, next_sg, event_to_sg,
                   sg_to_state, minted, computed, avars, rvars, ovars, evars, svars>>

(* get_ordered_fast, up to the loop: zeroes lists the extremities in the   *)
(* order the HashSet yields them.                                          *)
OrderStart ==
    /\ pc = "order"
    /\ zeroes' \in Orderings(extremities)
    /\ adjacents' = initial_adjacents(event_map, parents)
    /\ ordered' = <<>>
    /\ pc' = "pop"
    /\ UNCHANGED <<input, event_map, parents, extremities, roots, idx, next_sg,
                   event_to_sg, sg_to_state, minted, computed, avars, rvars, ovars, evars, svars>>

PopZero ==
    /\ pc = "pop" /\ zeroes # <<>>
    /\ LET st == pop_zero([zeroes |-> zeroes, adjacents |-> adjacents,
                           ordered |-> ordered], event_map)
       IN  /\ zeroes' = st.zeroes
           /\ adjacents' = st.adjacents
           /\ ordered' = st.ordered
    /\ UNCHANGED <<pc, input, event_map, parents, extremities, roots, idx, next_sg,
                   event_to_sg, sg_to_state, minted, computed, avars, rvars, ovars, evars, svars>>

(* The end of get_ordered_fast: the assertion, then the reversal.          *)
OrderFinish ==
    /\ pc = "pop" /\ zeroes = <<>>
    /\ IF Len(ordered) # Cardinality(DOMAIN event_map)
       THEN pc' = "panic" /\ ordered' = ordered
       ELSE pc' = "walk" /\ ordered' = Reverse(ordered)
    /\ UNCHANGED <<input, event_map, parents, extremities, roots, zeroes, adjacents,
                   idx, next_sg, event_to_sg, sg_to_state, minted, computed,
                   avars, rvars, ovars, evars, svars>>

(* One iteration of `for eid in &ordered`.                                 *)
WalkEvent ==
    /\ pc = "walk" /\ idx < Len(ordered)
    /\ \E iter \in IterOrders(EngineSlots) :
        LET st == walk_event([status |-> "ok", next_sg |-> next_sg,
                              event_to_sg |-> event_to_sg, sg_to_state |-> sg_to_state,
                              minted |-> minted, computed |-> computed],
                             event_map[ordered[idx + 1]], event_map, iter)
        IN  /\ pc' = IF st.status = "ok" THEN "walk" ELSE "panic"
            /\ next_sg' = st.next_sg
            /\ event_to_sg' = st.event_to_sg
            /\ sg_to_state' = st.sg_to_state
            /\ minted' = st.minted
            /\ computed' = st.computed
    /\ idx' = idx + 1
    /\ UNCHANGED <<input, event_map, parents, extremities, roots, zeroes, adjacents,
                   ordered, avars, rvars, ovars, evars, svars>>

WalkFinish ==
    /\ pc = "walk" /\ idx = Len(ordered)
    /\ pc' = "done"
    /\ UNCHANGED <<input, event_map, parents, extremities, roots, zeroes, adjacents,
                   ordered, idx, next_sg, event_to_sg, sg_to_state, minted, computed,
                   avars, rvars, ovars, evars, svars>>

Next == ReadEvents \/ OrderStart \/ PopZero \/ OrderFinish \/ WalkEvent \/ WalkFinish

Spec == Init /\ [][Next]_vars

-----------------------------------------------------------------------------
(* SpecSearch: the binary search of main for the first event whose         *)
(* computed state differs from the external one.  agree[i + 1] says        *)
(* whether the states of ordered[i] are equal: the closure given to        *)
(* binary_search_by answers Less when they are and Greater when not.       *)
(* The slice need not be partitioned by that answer, and then the result   *)
(* is whatever the search of the standard library arrives at.              *)

MaxOrder == 6

(* slice::binary_search_by: the loop that halves `size` and moves `base`,  *)
(* then the comparison at `base`.                                          *)
RECURSIVE search_halving(_, _, _)
search_halving(agree, base, size) ==
    IF size > 1
    THEN search_halving(agree,
                        IF agree[base + (size \div 2) + 1] THEN base + (size \div 2)
                        ELSE base,
                        size - (size \div 2))
    ELSE base + (IF agree[base + 1] THEN 1 ELSE 0)

(* ordered.binary_search_by(..).unwrap_err(): the closure never answers    *)
(* Equal, so the result is always an Err.                                  *)
binary_search_by(agree) ==
    IF Len(agree) = 0 THEN 0 ELSE search_halving(agree, 0, Len(agree))

InitSearch ==
    /\ s_pc = "start"
    /\ \E n \in 0..MaxOrder : s_agree \in [1..n -> BOOLEAN]
    /\ s_res = -1
    /\ IdleAuth /\ IdleResolve /\ IdleMain /\ IdleOrder /\ IdleEvents

Search ==
    /\ s_pc = "start"
    /\ s_res' = binary_search_by(s_agree)
    /\ s_pc' = "done"
    /\ UNCHANGED <<s_agree, avars, rvars, mvars, ovars, evars>>

NextSearch == Search

SpecSearch == InitSearch /\ [][NextSearch]_vars

-----------------------------------------------------------------------------
(* Claims about the authorizer, checked under SpecAuth.                    *)

(* The candidate is a join of the room's creator that names the create     *)
(* event of the auth state as its only predecessor.                        *)
BypassCase ==
    /\ a_pc = "checked"
    /\ a_event.etype = "m.room.member"
    /\ GetStr(a_event.content, "membership") = Some("join")
    /\ Len(a_event.prev_events) = 1
    /\ CreateSlot \in DOMAIN a_auth
    /\ a_event.prev_events[1] = a_auth[CreateSlot].event_id
    /\ IsSome(a_event.state_key)
    /\ GetStr(a_auth[CreateSlot].content, "creator") = a_event.state_key

(* C5 as stated: in the bypass case check accepts whatever the sender, the *)
(* other fields of the event and the other entries of the auth state are.  *)
C5_AnySender == BypassCase => a_result = "ok"

(* C5, amended: in the bypass case check accepts whenever the sender has a *)
(* domain part (contains ':'), whatever the other fields of the event and  *)
(* the other entries of the auth state are.                                *)
C5_CreateBypass ==
    (BypassCase /\ get_domain_from_id(a_event.sender) # None) => a_result = "ok"

(* The bypass accepts a join sent by another user for a creator whom the   *)
(* auth state records as banned.                                           *)
C5_Witness ==
    /\ BypassCase
    /\ a_event.sender # a_event.state_key[1]
    /\ MemberSlot(a_event.state_key[1]) \in DOMAIN a_auth
    /\ GetStr(a_auth[MemberSlot(a_event.state_key[1])].content, "membership") = Some("ban")
    /\ a_result = "ok"

(* C6: check and auth_types_for_event always return: neither call aborts,  *)
(* whatever the event and the auth state hold.                             *)
C6_NeverAborts == a_result # "panic" /\ a_types # "panic"

(* Every member event of the auth state carries a membership string.       *)
AuthMembersReadable ==
    \A s \in DOMAIN a_auth :
        s[1] = "m.room.member" => IsSome(GetStr(a_auth[s].content, "membership"))

(* The candidate is an invite whose content.third_party_invite.signed is   *)
(* an object with the string keys mxid, sender and token, outside the      *)
(* creator bypass and with a create event in the auth state.               *)
SignedOf(event) == event.content["third_party_invite"].o["signed"].o
ThirdPartyCase ==
    /\ a_pc = "checked"
    /\ a_event.etype = "m.room.member"
    /\ CreateSlot \in DOMAIN a_auth
    /\ GetStr(a_event.content, "membership") = Some("invite")
    /\ "third_party_invite" \in DOMAIN a_event.content
    /\ a_event.content["third_party_invite"].k = "obj"
    /\ "signed" \in DOMAIN a_event.content["third_party_invite"].o
    /\ a_event.content["third_party_invite"].o["signed"].k = "obj"
    /\ \A key \in {"mxid", "sender", "token"} : IsSome(GetStr(SignedOf(a_event), key))

(* C10, on auth states whose member events all carry a membership and for  *)
(* candidates that are state events: a third-party invite is accepted if   *)
(* and only if the auth state holds the invite named by signed.token, sent *)
(* by the candidate's sender, state_key is signed.mxid and the target is   *)
(* not banned.                                                             *)
C10_ThirdPartyInvite ==
    (ThirdPartyCase /\ AuthMembersReadable /\ IsSome(a_event.state_key)) =>
        LET signed == SignedOf(a_event)
            slot == Slot("m.room.third_party_invite", signed["token"].s)
            target == MemberSlot(a_event.state_key[1])
        IN  a_result = "ok" <=>
                /\ slot \in DOMAIN a_auth
                /\ a_auth[slot].sender = a_event.sender
                /\ a_event.state_key = Some(signed["mxid"].s)
                /\ ~(/\ target \in DOMAIN a_auth
                     /\ GetStr(a_auth[target].content, "membership") = Some("ban"))

(* The membership an m.room.member event asks for, "" when it is no string.*)
AskedMembership == UnwrapOr(GetStr(a_event.content, "membership"), "")

(* The membership the auth state records for a user, None without one.    *)
CurrentMembership(user) ==
    IF MemberSlot(user) \in DOMAIN a_auth
    THEN GetStr(a_auth[MemberSlot(user)].content, "membership") ELSE None

SenderLevel == get_user_power_level(a_event.sender, a_auth)
SendLevel == get_send_level(a_event.etype, IsSome(a_event.state_key), a_auth)
InviteLevel == UnwrapOr(get_named_level("invite", a_auth), 0)

(* An m.room.third_party_invite event of a joined sender was checked       *)
(* against an auth state with a create event.                              *)
ThirdPartyInviteEventCase ==
    /\ a_pc = "checked"
    /\ a_event.etype = "m.room.third_party_invite"
    /\ CreateSlot \in DOMAIN a_auth
    /\ CurrentMembership(a_event.sender) = Some("join")

(* The sender's id has a domain: check gets past its first step.           *)
SenderHasDomain == IsSome(get_domain_from_id(a_event.sender))

(* What step 8 rejects.                                                    *)
SendCheckFails ==
    \/ SenderLevel < SendLevel
    \/ /\ IsSome(a_event.state_key) /\ starts_with_at(a_event.state_key[1])
       /\ a_event.state_key[1] # a_event.sender

(* C12 as claimed: a third-party-invite event that passes the invite level *)
(* is rejected when the send permission check fails.                       *)
C12_SendCheckApplies ==
    (ThirdPartyInviteEventCase /\ SenderLevel >= InviteLevel /\ SendCheckFails)
        => a_result # "ok"

(* C12, amended: a third-party-invite event of a joined sender is accepted *)
(* exactly when the sender's id has a domain and the sender's level        *)
(* reaches the invite level.                                               *)
C12_InviteLevelDecides ==
    ThirdPartyInviteEventCase
        => (a_result = "ok" <=> (SenderHasDomain /\ SenderLevel >= InviteLevel))

(* Accepted with a level below the send level and a foreign user as        *)
(* state_key.                                                              *)
C12_Witness ==
    /\ ThirdPartyInviteEventCase
    /\ a_event.sender = "@b:x" /\ a_event.state_key = Some("@a:x")
    /\ SenderLevel < SendLevel
    /\ a_result = "ok"

(* A member event with a string membership and a state_key was checked     *)
(* against an auth state with a create event: check reached the membership *)
(* check.                                                                  *)
MembershipCase(m) ==
    /\ a_pc = "checked"
    /\ a_event.etype = "m.room.member"
    /\ GetStr(a_event.content, "membership") = Some(m)
    /\ IsSome(a_event.state_key)
    /\ CreateSlot \in DOMAIN a_auth
    /\ IsSome(get_domain_from_id(a_event.sender))

BanLevel == UnwrapOr(get_named_level("ban", a_auth), 50)
TargetLevel == get_user_power_level(a_event.state_key[1], a_auth)

(* C14: a ban is accepted only from a joined sender whose level reaches    *)
(* the ban level and is above the target's level.                          *)
C14_BanRule ==
    (a_pc = "checked" /\ a_event.etype = "m.room.member"
        /\ GetStr(a_event.content, "membership") = Some("ban") /\ a_result = "ok")
    => /\ IsSome(a_event.state_key)
       /\ CurrentMembership(a_event.sender) = Some("join")
       /\ SenderLevel >= BanLevel
       /\ SenderLevel > TargetLevel

(* The creator, at level 100, bans @b:x, at level 0.                       *)
C14_Witness ==
    /\ MembershipCase("ban")
    /\ a_event.sender = "@a:x" /\ a_event.state_key = Some("@b:x")
    /\ SenderLevel = 100 /\ TargetLevel = 0 /\ BanLevel = 50
    /\ a_result = "ok"

(* C15: with the sender invited, a leave of the sender itself is accepted; *)
(* with the sender not joined, no other member event whose membership is   *)
(* not "join" and that is no third-party invite is accepted.               *)
C15_SelfLeaveAfterInvite ==
    /\ ( /\ MembershipCase("leave")
         /\ a_event.state_key = Some(a_event.sender)
         /\ CurrentMembership(a_event.sender) = Some("invite") )
       => a_result = "ok"
    /\ ( /\ a_pc = "checked" /\ a_event.etype = "m.room.member"
         /\ AskedMembership # "join"
         /\ "third_party_invite" \notin DOMAIN a_event.content
         /\ CurrentMembership(a_event.sender) # Some("join")
         /\ ~( /\ AskedMembership = "leave"
               /\ a_event.state_key = Some(a_event.sender)
               /\ CurrentMembership(a_event.sender) = Some("invite") ) )
       => a_result # "ok"

(* The invited @b:x leaves.                                                *)
C15_Witness ==
    /\ MembershipCase("leave")
    /\ a_event.sender = "@b:x" /\ a_event.state_key = Some("@b:x")
    /\ CurrentMembership("@b:x") = Some("invite")
    /\ a_result = "ok"

BaseTypes == <<CreateSlot, PowerSlot, MemberSlot(a_event.sender)>>
TargetTypes ==
    IF IsSome(a_event.state_key) THEN <<MemberSlot(a_event.state_key[1])>> ELSE <<>>
RulesTypes ==
    IF AskedMembership \in {"join", "invite"} THEN <<JoinRulesSlot>> ELSE <<>>

(* auth_types_for_event returned (it does not for a member event whose     *)
(* content has no membership key).                                         *)
TypesReturned ==
    /\ a_pc = "typed"
    /\ ~(a_event.etype = "m.room.member" /\ "membership" \notin DOMAIN a_event.content)

(* C16 as claimed, on the calls that return: after the three base slots    *)
(* come the target's member slot and then the join rules slot.             *)
C16_TargetThenRules ==
    TypesReturned =>
        a_types = IF a_event.etype = "m.room.create" THEN <<>>
                  ELSE IF a_event.etype # "m.room.member" THEN BaseTypes
                  ELSE BaseTypes \o TargetTypes \o RulesTypes

(* C16, amended: after the three base slots come the join rules slot and   *)
(* then the target's member slot; no slot for m.room.create.               *)
C16_RulesThenTarget ==
    TypesReturned =>
        a_types = IF a_event.etype = "m.room.create" THEN <<>>
                  ELSE IF a_event.etype # "m.room.member" THEN BaseTypes
                  ELSE BaseTypes \o RulesTypes \o TargetTypes

(* An invite of @b:x by @a:x: five slots, the join rules fourth.           *)
C16_Witness ==
    /\ a_pc = "typed"
    /\ a_event.etype = "m.room.member" /\ AskedMembership = "invite"
    /\ a_event.sender = "@a:x" /\ a_event.state_key = Some("@b:x")
    /\ a_types = <<CreateSlot, PowerSlot, MemberSlot("@a:x"), JoinRulesSlot,
                   MemberSlot("@b:x")>>

(* A leave of a joined sender reached the membership check.                *)
LeaveOfJoined ==
    /\ MembershipCase("leave")
    /\ CurrentMembership(a_event.sender) = Some("join")

KickLevel == UnwrapOr(get_named_level("kick", a_auth), 50)

(* C26: a leave from a joined sender is rejected when the target is banned *)
(* and the sender's level is below the ban level; when the target is not   *)
(* the sender it is rejected unless the sender's level reaches the kick    *)
(* level and is above the target's level; a leave of the sender itself is  *)
(* accepted.                                                               *)
C26_LeaveRule ==
    LeaveOfJoined =>
        /\ ( CurrentMembership(a_event.state_key[1]) = Some("ban")
                /\ SenderLevel < BanLevel ) => a_result # "ok"
        /\ ( a_event.state_key[1] # a_event.sender
                /\ ~(SenderLevel >= KickLevel /\ SenderLevel > TargetLevel) )
             => a_result # "ok"
        /\ a_event.state_key[1] = a_event.sender => a_result = "ok"

(* @b:x, at level 60 with the ban level at 75, may kick @a:x, at level 0,  *)
(* but @a:x is banned: the leave is rejected by the test on the ban level. *)
C26_Witness ==
    /\ LeaveOfJoined
    /\ a_event.sender = "@b:x" /\ a_event.state_key = Some("@a:x")
    /\ SenderLevel = 60 /\ BanLevel = 75 /\ KickLevel = 50 /\ TargetLevel = 0
    /\ CurrentMembership("@a:x") = Some("ban")
    /\ a_result = "cannot unban user"

-----------------------------------------------------------------------------
(* Claims about power values, checked under SpecPower.                     *)

PowerLevelsCase ==
    /\ a_pc = "checked"
    /\ a_event.etype = "m.room.power_levels"
    /\ PowerSlot \in DOMAIN a_auth

(* The level a users map gives a user: the entry read as a number, None    *)
(* when there is no entry or it is no number.                              *)
UsersEntry(content, user) ==
    IF "users" \in DOMAIN content /\ content["users"].k = "obj"
    THEN GetInt(content["users"].o, user)
    ELSE None

(* The user's level differs between the old and the new users map, and the *)
(* old level is at or above the sender's, or the new one is above it.      *)
ForbiddenUserChange(user) ==
    LET old == UsersEntry(a_auth[PowerSlot].content, user)
        new == UsersEntry(a_event.content, user)
    IN  /\ old # new
        /\ \/ IsSome(old) /\ old[1] >= SenderLevel
           \/ IsSome(new) /\ new[1] > SenderLevel

(* C11: with a power-levels event in the auth state, a new power-levels    *)
(* event is rejected when for some user whose level differs between the    *)
(* old and the new users map the old level is present and at or above the  *)
(* sender's level, or the new level is present and above the sender's.     *)
C11_UsersRule ==
    (PowerLevelsCase /\ \E user \in PowerUsers : ForbiddenUserChange(user))
        => a_result # "ok"

(* @b:x at level 50 lowers @a:x, a peer at level 50, to 0: rejected by the *)
(* test on the old level.                                                  *)
C11_Witness ==
    /\ PowerLevelsCase
    /\ a_event.sender = "@b:x" /\ SenderLevel = 50
    /\ UsersEntry(a_auth[PowerSlot].content, "@a:x") = Some(50)
    /\ UsersEntry(a_event.content, "@a:x") = Some(0)
    /\ UsersEntry(a_event.content, "@b:x") = UsersEntry(a_auth[PowerSlot].content, "@b:x")
    /\ a_result = "old level higher for {} greater than users"

(* A JSON object of power values with every value replaced by the integer  *)
(* it stands for, and the entries that stand for none removed.             *)
AsIntegers(obj) ==
    [key \in {k \in DOMAIN obj : as_int(obj[k]) # None} |-> JInt(as_int(obj[key])[1])]

(* The content of a power-levels event with every power value (named       *)
(* levels, users entries, events entries) written as the integer it stands *)
(* for.                                                                    *)
IntegerContent(content) ==
    LET named == {levels_to_check[i] : i \in DOMAIN levels_to_check}
        maps == {k \in {"users", "events"} \cap DOMAIN content : content[k].k = "obj"}
        kept == {k \in DOMAIN content : k \in named => as_int(content[k]) # None}
    IN  [k \in kept |->
            IF k \in maps THEN JObj(AsIntegers(content[k].o))
            ELSE IF k \in named THEN JInt(as_int(content[k])[1])
            ELSE content[k]]

IntegerEvent(event) ==
    IF event.etype = "m.room.power_levels"
    THEN [event EXCEPT !.content = IntegerContent(@)]
    ELSE event

IntegerAuth(auth_events) ==
    [s \in DOMAIN auth_events |->
        IF s = PowerSlot THEN IntegerEvent(auth_events[s]) ELSE auth_events[s]]

(* C13: check accepts an event exactly when it accepts it with every       *)
(* power value, of the event and of the power-levels event in the auth     *)
(* state, written as the integer it stands for (a float truncated toward   *)
(* zero, a decimal string parsed) and the strings that are no number       *)
(* left out.                                                               *)
C13_UniformCoercion ==
    a_pc = "checked" =>
        ((a_result = "ok") <=> (check(IntegerEvent(a_event), IntegerAuth(a_auth)) = "ok"))

(* The level an events map gives an event type: the entry read as a        *)
(* number, None when there is no entry or it is no number.                 *)
EventsEntry(content, etype) ==
    IF "events" \in DOMAIN content /\ content["events"].k = "obj"
    THEN GetInt(content["events"].o, etype)
    ELSE None

(* The event types either events map names.                                *)
EventTypesNamed ==
    UNION { IF "events" \in DOMAIN c /\ c["events"].k = "obj"
            THEN DOMAIN c["events"].o ELSE {} :
            c \in {a_event.content, a_auth[PowerSlot].content} }

(* The type's level differs between the prior and the new events map, and  *)
(* the old or the new level is above the sender's.                         *)
ForbiddenEventChange(etype) ==
    LET old == EventsEntry(a_auth[PowerSlot].content, etype)
        new == EventsEntry(a_event.content, etype)
    IN  /\ old # new
        /\ \/ IsSome(old) /\ old[1] > SenderLevel
           \/ IsSome(new) /\ new[1] > SenderLevel

(* The power-levels event passes every test that comes before the events   *)
(* maps are read.                                                          *)
ReachesEventsCheck ==
    /\ PowerLevelsCase
    /\ check_user_in_room(a_event, a_auth) = "ok"
    /\ check_can_send_event(a_event, a_auth) = "ok"
    /\ check_named_levels(1, a_auth[PowerSlot].content, a_event.content, SenderLevel) = "ok"
    /\ number_like_map(a_auth[PowerSlot].content, "users").ok
    /\ number_like_map(a_event.content, "users").ok
    /\ check_users(number_like_map(a_auth[PowerSlot].content, "users").m,
                   number_like_map(a_event.content, "users").m, SenderLevel) = "ok"

(* C24: a power-levels event that reaches the events check is rejected     *)
(* exactly when some event type's level differs between the prior and the  *)
(* new events map and the old level (if present) or the new level (if      *)
(* present) is above the sender's level.                                   *)
C24_EventsRule ==
    ReachesEventsCheck
        => ((a_result # "ok") <=> \E etype \in EventTypesNamed : ForbiddenEventChange(etype))

-----------------------------------------------------------------------------
(* A claim about the send permission, checked under SpecAuth.              *)

(* An event that is no create, member or third-party-invite event was      *)
(* checked.                                                                *)
SendCase ==
    /\ a_pc = "checked"
    /\ a_event.etype \notin {"m.room.create", "m.room.member", "m.room.third_party_invite"}

(* The content of the power-levels event of the auth state.                *)
PowerOfRoom == a_auth[PowerSlot].content

(* The levels as the claim gives them.                                     *)
ClaimedSendLevel ==
    IF PowerSlot \notin DOMAIN a_auth THEN 0
    ELSE IF IsSome(EventsEntry(PowerOfRoom, a_event.etype))
    THEN EventsEntry(PowerOfRoom, a_event.etype)[1]
    ELSE IF IsSome(a_event.state_key)
    THEN UnwrapOr(GetInt(PowerOfRoom, "state_default"), 50)
    ELSE UnwrapOr(GetInt(PowerOfRoom, "events_default"), 0)

ClaimedSenderLevel ==
    IF PowerSlot \notin DOMAIN a_auth
    THEN IF /\ CreateSlot \in DOMAIN a_auth
            /\ GetStr(a_auth[CreateSlot].content, "creator") = Some(a_event.sender)
         THEN 100 ELSE 0
    ELSE IF IsSome(UsersEntry(PowerOfRoom, a_event.sender))
    THEN UsersEntry(PowerOfRoom, a_event.sender)[1]
    ELSE UnwrapOr(GetInt(PowerOfRoom, "users_default"), 0)

(* C27: an event that is no create, member or third-party-invite event is  *)
(* rejected when the sender's level is below the send level, and when its  *)
(* state_key starts with "@" and is not the sender.                        *)
C27_SendPermission ==
    SendCase =>
        /\ ClaimedSenderLevel < ClaimedSendLevel => a_result # "ok"
        /\ ( /\ IsSome(a_event.state_key)
              /\ starts_with_at(a_event.state_key[1])
              /\ a_event.state_key[1] # a_event.sender ) => a_result # "ok"

(* @b:x, at level 10, sends a topic event: the events map asks for 20,     *)
(* although state_default is 5.                                            *)
C27_Witness ==
    /\ SendCase
    /\ a_event.etype = "m.room.topic" /\ a_event.sender = "@b:x"
    /\ a_event.state_key = Some("")
    /\ PowerSlot \in DOMAIN a_auth
    /\ ClaimedSenderLevel = 10 /\ ClaimedSendLevel = 20
    /\ GetInt(PowerOfRoom, "state_default") = Some(5)
    /\ a_result = "user doesn't have power to send event"

-----------------------------------------------------------------------------
(* Claims about membership events, checked under SpecMembers.  In a step   *)
(* a_event' is the event sent, a_result' what check made of it and a_auth  *)
(* the auth state it was checked against.                                  *)

MembershipIn(auth_events, user) ==
    IF MemberSlot(user) \in DOMAIN auth_events
    THEN GetStr(auth_events[MemberSlot(user)].content, "membership")
    ELSE None

JoinRuleIn(auth_events) ==
    IF JoinRulesSlot \in DOMAIN auth_events
    THEN UnwrapOr(GetStr(auth_events[JoinRulesSlot].content, "join_rule"), "invite")
    ELSE "invite"

(* The event is a join that the creator bypass accepts.                    *)
BypassJoin(event, auth_events) ==
    /\ event.content["membership"] = JStr("join")
    /\ event.prev_events = <<auth_events[CreateSlot].event_id>>
    /\ Some(event.state_key[1]) = GetStr(auth_events[CreateSlot].content, "creator")

(* A join accepted outside the creator bypass has a target that is not     *)
(* banned, a sender equal to the target and a join rule that lets the      *)
(* sender in.                                                              *)
JoinAcceptedByRule ==
    ( /\ a_event'.content["membership"] = JStr("join")
      /\ a_result' = "ok"
      /\ ~BypassJoin(a_event', a_auth) )
    => /\ MembershipIn(a_auth, a_event'.state_key[1]) # Some("ban")
       /\ a_event'.sender = a_event'.state_key[1]
       /\ \/ JoinRuleIn(a_auth) = "public"
          \/ /\ JoinRuleIn(a_auth) = "invite"
             /\ MembershipIn(a_auth, a_event'.sender) \in {Some("join"), Some("invite")}

(* C25, as stated: a join accepted outside the creator bypass obeys the     *)
(* join rule, and no accepted membership event turns a banned user into a  *)
(* joined one.                                                             *)
C25_BannedNeverJoins ==
    [][ /\ JoinAcceptedByRule
        /\ \A user \in PowerUsers :
              ~(MembershipIn(a_auth, user) = Some("ban")
                    /\ MembershipIn(a_auth', user) = Some("join")) ]_vars

(* C25, amended: a join accepted outside the creator bypass obeys the join *)
(* rule, and an accepted membership event turns a banned user into a       *)
(* joined one only through the creator bypass.                             *)
C25_JoinRule ==
    [][ /\ JoinAcceptedByRule
        /\ \A user \in PowerUsers :
              (MembershipIn(a_auth, user) = Some("ban")
                    /\ MembershipIn(a_auth', user) = Some("join"))
                => BypassJoin(a_event', a_auth) ]_vars

(* @b:x has been banned by an accepted event, and its join has then been   *)
(* rejected.                                                               *)
C25_Witness ==
    /\ a_pc = "room"
    /\ a_event # Empty
    /\ a_event.content["membership"] = JStr("join")
    /\ a_event.sender = "@b:x" /\ a_event.state_key = Some("@b:x")
    /\ MembershipIn(a_auth, "@b:x") = Some("ban")
    /\ a_result = "user is banned"

-----------------------------------------------------------------------------
(* Claims about the resolver, checked under SpecResolve.                   *)

(* The slots every input map holds with the same event id.                 *)
AgreedSlots ==
    IF r_sets = <<>> THEN {}
    ELSE { s \in DOMAIN r_sets[1] :
            \A i \in DOMAIN r_sets : s \in DOMAIN r_sets[i] /\ r_sets[i][s] = r_sets[1][s] }

(* C2: every slot that all the input maps hold with the same event id is   *)
(* in the map resolve_state returns, with that event id.                   *)
C2_UnconflictedPreserved ==
    (r_pc = "done" /\ r_out.status = "ok") =>
        \A s \in AgreedSlots : s \in DOMAIN r_out.map /\ r_out.map[s] = r_sets[1][s]

(* Two maps that agree on the topic and disagree on a member, resolved.    *)
C2_Witness ==
    /\ r_pc = "done" /\ r_out.status = "ok"
    /\ Len(r_sets) = 2
    /\ TopicSlot \in AgreedSlots
    /\ MemberSlot("@b:x") \in DOMAIN r_sets[1] \cap DOMAIN r_sets[2]
    /\ r_sets[1][MemberSlot("@b:x")] # r_sets[2][MemberSlot("@b:x")]

(* C18: resolve_state of a single map returns that map, and of the empty   *)
(* list the empty map.                                                     *)
C18_Convergence ==
    r_pc = "done" =>
        /\ Len(r_sets) = 0 => r_out = [status |-> "ok", map |-> Empty]
        /\ Len(r_sets) = 1 => r_out = [status |-> "ok", map |-> r_sets[1]]

(* A single map with all five slots, one of them a member event whose      *)
(* content has no membership, returned as it is.                           *)
C18_Witness ==
    /\ r_pc = "done" /\ Len(r_sets) = 1
    /\ Cardinality(DOMAIN r_sets[1]) = 5
    /\ r_sets[1][MemberSlot("@b:x")] = "$mb3:x"
    /\ r_out.status = "ok" /\ r_out.map = r_sets[1]

-----------------------------------------------------------------------------
(* Claims about the engine, checked under Spec.                            *)

(* The run that takes the extremities in a fixed order and iterates the    *)
(* slots in a fixed order.                                                 *)
ReferenceRun ==
    LET rd == read_events(input, 1, [event_map |-> Empty, parents |-> Empty,
                                     extremities |-> {}, roots |-> <<>>])
    IN  run_main(rd, CHOOSE o \in Orderings(rd.extremities) : TRUE, EngineSlots)

(* C1: every run on the same input ends like the reference run: the same   *)
(* state map for every event (or, both, no result).                        *)
C1_Deterministic ==
    pc \in {"done", "panic"} =>
        outcome_of(IF pc = "done" THEN "ok" ELSE "panic", computed) = ReferenceRun

(* The walk stopped at an event whose only predecessor is not in the file. *)
MissingPredecessorAbort ==
    /\ pc = "panic" /\ idx > 0
    /\ Len(event_map[ordered[idx]].prev_events) = 1
    /\ event_map[ordered[idx]].prev_events[1] \notin DOMAIN event_map

(* C3: after the walk every event has a state group with a stored map, and *)
(* an event with a predecessor that is not in the file never stops the run.*)
C3_EveryEventGrouped ==
    /\ pc = "done" => \A e \in DOMAIN event_map :
            e \in DOMAIN event_to_sg /\ event_to_sg[e] \in DOMAIN sg_to_state
    /\ ~MissingPredecessorAbort

IsPermutation(order, ids) ==
    /\ Len(order) = Cardinality(ids)
    /\ SetOf(order) = ids

IsTopological(order, emap) ==
    \A i \in 1..Len(order) :
        \A p \in SetOf(emap[order[i]].prev_events) \cap DOMAIN emap :
            \E j \in 1..(i - 1) : order[j] = p

(* C4: the assertion of get_ordered_fast holds, and the order it returns   *)
(* lists every event once, each after all its predecessors in the file.    *)
C4_TopologicalOrder ==
    /\ (pc = "pop" /\ zeroes = <<>>) => Len(ordered) = Cardinality(DOMAIN event_map)
    /\ pc = "walk" => /\ IsPermutation(ordered, DOMAIN event_map)
                      /\ IsTopological(ordered, event_map)

(* C7 as claimed: two events have the same state group exactly when their  *)
(* computed state maps are equal.                                          *)
C7_SameGroupIffSameMap ==
    pc = "done" => \A e1, e2 \in DOMAIN event_to_sg :
        (event_to_sg[e1] = event_to_sg[e2]) <=> (computed[e1] = computed[e2])

(* C7, amended: two events with the same state group have equal computed   *)
(* state maps, and the map stored for the group is that map.               *)
C7_SameGroupSameMap ==
    pc = "done" => \A e1, e2 \in DOMAIN event_to_sg :
        (event_to_sg[e1] = event_to_sg[e2]) =>
            /\ computed[e1] = computed[e2]
            /\ sg_to_state[event_to_sg[e1]] = computed[e1]

(* Two events share a group and a state event after them has another.      *)
C7_Witness ==
    /\ pc = "done"
    /\ \E e1, e2, e3 \in DOMAIN event_to_sg :
        /\ e1 # e2 /\ event_to_sg[e1] = event_to_sg[e2]
        /\ IsSome(event_map[e3].state_key)
        /\ event_map[e3].prev_events = <<e2>>
        /\ event_to_sg[e3] # event_to_sg[e2]

(* The predecessors of e that have a state group.                          *)
GroupedPrevs(e) == SetOf(event_map[e].prev_events) \cap DOMAIN event_to_sg

(* C8 as claimed: an event without a state_key whose predecessors, one or  *)
(* several, all carry the same state map gets their group and no new one.  *)
C8_ReuseAnyPredecessors ==
    \A e \in DOMAIN event_to_sg :
        ( /\ event_map[e].state_key = None
          /\ event_map[e].prev_events # <<>>
          /\ SetOf(event_map[e].prev_events) \subseteq DOMAIN event_to_sg
          /\ \A p, q \in GroupedPrevs(e) : computed[p] = computed[q] )
        => /\ ~minted[e]
           /\ \A p \in GroupedPrevs(e) : event_to_sg[e] = event_to_sg[p]

(* C8, amended: an event without a state_key that has exactly one          *)
(* prev_events entry gets the group of that predecessor and no new one.    *)
C8_ReuseOnePredecessor ==
    \A e \in DOMAIN event_to_sg :
        (event_map[e].state_key = None /\ Len(event_map[e].prev_events) = 1)
        => /\ ~minted[e]
           /\ event_to_sg[e] = event_to_sg[event_map[e].prev_events[1]]

(* A message after one predecessor reused its group, and a message after   *)
(* two predecessors with equal maps got a new one.                         *)
C8_Witness ==
    /\ pc = "done"
    /\ \E e \in DOMAIN event_to_sg :
        /\ event_map[e].state_key = None /\ Len(event_map[e].prev_events) = 1
        /\ ~minted[e]
    /\ \E e \in DOMAIN event_to_sg :
        /\ event_map[e].state_key = None /\ Len(event_map[e].prev_events) = 2
        /\ Cardinality(GroupedPrevs(e)) = 2
        /\ \A p, q \in GroupedPrevs(e) : computed[p] = computed[q]
        /\ minted[e]

(* C9: no step changes or removes the map stored for a state group, and a  *)
(* group id given to a newly minted group was not in sg_to_state before.   *)
C9_StoredGroupsStable ==
    [][ /\ \A sg \in DOMAIN sg_to_state :
            sg \in DOMAIN sg_to_state' /\ sg_to_state'[sg] = sg_to_state[sg]
        /\ \A e \in DOMAIN minted' \ DOMAIN minted :
            minted'[e] => event_to_sg'[e] \notin DOMAIN sg_to_state ]_vars

(* A walk that stored two groups, reused one and resolved two predecessors.*)
C9_Witness ==
    /\ pc = "done"
    /\ Cardinality(DOMAIN sg_to_state) >= 2
    /\ \E e \in DOMAIN minted : ~minted[e]
    /\ \E e \in DOMAIN event_to_sg :
        /\ Cardinality(GroupedPrevs(e)) = 2
        /\ IsSome(event_map[e].state_key)

(* The event the next iteration of the walk handles.                       *)
WalkedEvent == event_map[ordered[idx + 1]]

(* The state an event may start from: empty without prev_events, the map   *)
(* of the one predecessor's group, or what resolve_state makes of the maps *)
(* of the predecessors that have a group.                                  *)
PredecessorStates(e) ==
    IF e.prev_events = <<>> THEN {Empty}
    ELSE IF Len(e.prev_events) = 1
    THEN {sg_to_state[event_to_sg[e.prev_events[1]]]}
    ELSE { r.map : r \in { resolve_state(state_sets_of(e.prev_events, event_to_sg,
                                                       sg_to_state),
                                         event_map, iter) :
                           iter \in IterOrders(EngineSlots) } }

(* C19: the iteration of the walk that handles a state event e stores, for *)
(* e's state group, the predecessor state with (e.etype, e.state_key)      *)
(* mapped to e.event_id; without prev_events the stored map is that one    *)
(* entry.                                                                  *)
C19_StateEventStored ==
    [][ (pc = "walk" /\ pc' = "walk" /\ idx' = idx + 1
            /\ IsSome(WalkedEvent.state_key))
        => LET e == WalkedEvent
               slot == Slot(e.etype, e.state_key[1])
           IN  /\ e.event_id \in DOMAIN event_to_sg'
               /\ event_to_sg'[e.event_id] \in DOMAIN sg_to_state'
               /\ \E before \in PredecessorStates(e) :
                    sg_to_state'[event_to_sg'[e.event_id]] =
                        [s \in DOMAIN before \cup {slot} |->
                            IF s = slot THEN e.event_id ELSE before[s]]
               /\ e.prev_events = <<>> =>
                    sg_to_state'[event_to_sg'[e.event_id]] = (slot :> e.event_id) ]_vars

(* A walk that stored a root state event with its single entry, and a      *)
(* state event after one predecessor with that predecessor's entry and     *)
(* its own.                                                                *)
C19_Witness ==
    /\ pc = "done"
    /\ \E e \in DOMAIN event_to_sg :
        /\ IsSome(event_map[e].state_key) /\ event_map[e].prev_events = <<>>
        /\ sg_to_state[event_to_sg[e]] =
              (Slot(event_map[e].etype, event_map[e].state_key[1]) :> e)
    /\ \E e \in DOMAIN event_to_sg :
        /\ IsSome(event_map[e].state_key) /\ Len(event_map[e].prev_events) = 1
        /\ LET slot == Slot(event_map[e].etype, event_map[e].state_key[1])
               before == sg_to_state[event_to_sg[event_map[e].prev_events[1]]]
           IN  /\ slot \notin DOMAIN before /\ before # Empty
               /\ sg_to_state[event_to_sg[e]] = (slot :> e) @@ before

(* Every event of the file has at most one prev_events entry, and that     *)
(* entry is an event of the file.                                          *)
ChainInput ==
    \A i \in DOMAIN input :
        /\ Len(input[i].prev_events) <= 1
        /\ \A pid \in SetOf(input[i].prev_events) :
              \E j \in DOMAIN input : input[j].event_id = pid

(* The events whose group was newly made for them.                         *)
MintedEvents == {e \in DOMAIN minted : minted[e]}

(* C20: on a file where every event has at most one predecessor, the walk  *)
(* completes; an event without state_key that has a predecessor is given   *)
(* the predecessor's group and none is made for it; an event without       *)
(* prev_events and every state event is given a group made for it, which   *)
(* no event handled before it has.                                         *)
C20_Chain ==
    ChainInput =>
        /\ pc # "panic"
        /\ pc = "done" =>
            /\ DOMAIN event_to_sg = DOMAIN event_map
            /\ \A e \in DOMAIN event_map :
                IF event_map[e].state_key = None /\ event_map[e].prev_events # <<>>
                THEN /\ ~minted[e]
                     /\ event_to_sg[e] = event_to_sg[event_map[e].prev_events[1]]
                ELSE /\ minted[e]
                     /\ \A f \in MintedEvents \ {e} : event_to_sg[f] # event_to_sg[e]
                     /\ \A pid \in SetOf(event_map[e].prev_events) :
                            event_to_sg[pid] # event_to_sg[e]

(* The chain $1 <- $2 <- $3 of a root, a state event and a message: the    *)
(* root and the state event have groups 1 and 2, the message has group 2.  *)
C20_Witness ==
    /\ ChainInput /\ pc = "done"
    /\ event_map["$1:x"].prev_events = <<>>
    /\ event_map["$2:x"].prev_events = <<"$1:x">>
    /\ event_map["$3:x"].prev_events = <<"$2:x">>
    /\ IsSome(event_map["$2:x"].state_key) /\ event_map["$3:x"].state_key = None
    /\ event_to_sg = ("$1:x" :> 1) @@ ("$2:x" :> 2) @@ ("$3:x" :> 2)
    /\ minted = ("$1:x" :> TRUE) @@ ("$2:x" :> TRUE) @@ ("$3:x" :> FALSE)

-----------------------------------------------------------------------------
(* Claims about order_events, checked under SpecOrder.                     *)

(* The key of the claim: deeper first, then the smaller digest first.      *)
BeforeInOrder(a, b) ==
    \/ a.depth > b.depth
    \/ a.depth = b.depth /\ Sha1Prefix[a.event_id] < Sha1Prefix[b.event_id]

(* C17: order_events returns the events of its input by depth descending   *)
(* and, at equal depth, by digest ascending, and returns the same list for *)
(* every arrangement of the same events.                                   *)
C17_OrderEvents ==
    o_pc = "sorted" =>
        /\ Len(o_sorted) = Len(o_events) /\ SetOf(o_sorted) = SetOf(o_events)
        /\ \A i \in 1..(Len(o_sorted) - 1) :
                BeforeInOrder(o_emap[o_sorted[i]], o_emap[o_sorted[i + 1]])
        /\ \A p \in Orderings(SetOf(o_events)) : order_events(p, o_emap) = o_sorted

(* The list of the repository's test, sorted as the test expects.          *)
C17_Witness ==
    /\ o_pc = "sorted"
    /\ o_events = <<"@1:a", "@2:a", "@3:b">>
    /\ o_emap["@1:a"].depth = 1 /\ o_emap["@2:a"].depth = 2 /\ o_emap["@3:b"].depth = 2
    /\ o_sorted = <<"@2:a", "@3:b", "@1:a">>

-----------------------------------------------------------------------------
(* Claims about the slots resolve_state resolves, checked under            *)
(* SpecResolve.                                                            *)

(* The events the input maps hold in a slot.                               *)
Candidates(slot) ==
    { r_sets[i][slot] : i \in {i \in DOMAIN r_sets : slot \in DOMAIN r_sets[i]} }

ConflictedSlots ==
    { slot \in SetOf(ResolveSlots) : Cardinality(Candidates(slot)) > 1 }

NormalSlots ==
    { slot \in ConflictedSlots :
        slot[1] \notin {"m.room.member", "m.room.join_rules"} /\ slot # PowerSlot }

(* The ids of a set listed by depth descending, then digest ascending.     *)
InClaimOrder(ids) ==
    CHOOSE seq \in Orderings(ids) :
        \A i, j \in DOMAIN seq :
            i < j => BeforeInOrder(ResolveEvents[seq[i]], ResolveEvents[seq[j]])

(* The auth events as they are when the loop over the remaining slots      *)
(* starts.                                                                 *)
FinalAuth ==
    LET split == split_sets([unconflicted |-> r_sets[1], conflicted |-> Empty],
                            r_sets, 2, r_order)
    IN  members_stage(
            join_rules_stage(
                power_levels_stage(
                    start_state(split.unconflicted,
                                auth_events_types(split.conflicted, ResolveEvents).types),
                    split.conflicted, ResolveEvents),
                split.conflicted, ResolveEvents, r_order),
            split.conflicted, ResolveEvents, r_order).auth

(* The first event of the sequence that authorizes, or the last one.       *)
FirstAuthorized(seq, auth_events) ==
    LET ok == { i \in DOMAIN seq :
                  check(ResolveEvents[seq[i]], AuthOf(auth_events, ResolveEvents)) = "ok" }
    IN  IF ok = {} THEN seq[Len(seq)]
        ELSE seq[CHOOSE i \in ok : \A j \in ok : i <= j]

(* C21: the map resolve_state returns holds, for every conflicted slot     *)
(* that is not the power-levels slot, a join-rules slot or a member slot,  *)
(* the first of the slot's candidates by depth descending and digest       *)
(* ascending that authorizes against the final auth events, or the last    *)
(* candidate when none authorizes.                                         *)
C21_NormalSlotsResolved ==
    (r_pc = "done" /\ r_out.status = "ok")
        => \A slot \in NormalSlots :
              r_out.map[slot] = FirstAuthorized(InClaimOrder(Candidates(slot)), FinalAuth)

-----------------------------------------------------------------------------
(* A claim about the map resolve_state returns, checked under SpecResolve. *)

(* C29: for a non-empty list of input maps, the slots of the map           *)
(* resolve_state returns are the slots of the input maps together, and     *)
(* each holds an event id that some input map holds in that slot.          *)
C29_NothingInventedOrLost ==
    (r_pc = "done" /\ r_out.status = "ok" /\ r_sets # <<>>)
        => /\ DOMAIN r_out.map = UNION { DOMAIN r_sets[i] : i \in DOMAIN r_sets }
           /\ \A slot \in DOMAIN r_out.map : r_out.map[slot] \in Candidates(slot)

(* Two maps that each hold a slot the other lacks and disagree on a third. *)
C29_Witness ==
    /\ r_pc = "done" /\ r_out.status = "ok" /\ Len(r_sets) = 2
    /\ DOMAIN r_sets[1] \ DOMAIN r_sets[2] # {}
    /\ DOMAIN r_sets[2] \ DOMAIN r_sets[1] # {}
    /\ ConflictedSlots # {}
    /\ PowerSlot \in ConflictedSlots

-----------------------------------------------------------------------------
(* Claims about resolve_auth_events, checked under SpecEvents.             *)

(* The candidates by depth ascending, then digest descending.              *)
AscendingOrder ==
    CHOOSE seq \in Orderings(SetOf(e_events)) :
        \A i, j \in DOMAIN seq :
            i < j => BeforeInOrder(e_emap[seq[j]], e_emap[seq[i]])

(* check of an event against the auth events with the slot set to prev.    *)
CheckAfter(id, prev) ==
    check(e_emap[id], AuthOf(PutSlot(e_auth, e_key, prev), e_emap))

(* The length of the longest prefix of seq in which every event after the  *)
(* first authorizes after its immediate predecessor.                       *)
AuthorizedPrefix(seq) ==
    LET good == { k \in DOMAIN seq :
                    \A j \in 2..k : CheckAfter(seq[j], seq[j - 1]) = "ok" }
    IN  CHOOSE k \in good : \A x \in good : x <= k

(* C22: resolve_auth_events returns the last event of the longest prefix,  *)
(* in ascending depth with ties by descending digest, in which every event *)
(* after the first authorizes against the auth events with the slot set to *)
(* its immediate predecessor; the first event is not checked, and no event *)
(* after a rejected one is returned.                                       *)
C22_LongestAuthorizedPrefix ==
    (e_pc = "done" /\ e_out # "panic")
        => e_out = AscendingOrder[AuthorizedPrefix(AscendingOrder)]

(* Three candidates: the second is rejected, the third would authorize     *)
(* after the second and after the first, the first itself does not         *)
(* authorize, and the first is returned.                                   *)
C22_Witness ==
    /\ e_pc = "done" /\ Len(e_events) = 3
    /\ CheckAfter(AscendingOrder[2], AscendingOrder[1]) \notin {"ok", "panic"}
    /\ CheckAfter(AscendingOrder[3], AscendingOrder[2]) = "ok"
    /\ CheckAfter(AscendingOrder[3], AscendingOrder[1]) = "ok"
    /\ check(e_emap[AscendingOrder[1]], AuthOf(e_auth, e_emap)) # "ok"
    /\ e_emap[AscendingOrder[2]].depth = e_emap[AscendingOrder[3]].depth
    /\ e_out = AscendingOrder[1]

-----------------------------------------------------------------------------
(* Claims about the stages of resolve_state, checked under SpecStages.     *)

(* The split of the input maps.                                            *)
SplitOfInput ==
    split_sets([unconflicted |-> r_sets[1], conflicted |-> Empty], r_sets, 2, r_order)

(* auth_events before the first stage: the auth slots of the conflicted    *)
(* events that unconflicted holds.                                         *)
InitialAuth ==
    LET types == auth_events_types(SplitOfInput.conflicted, ResolveEvents).types
    IN  [s \in types \cap DOMAIN SplitOfInput.unconflicted |->
            SplitOfInput.unconflicted[s]]

(* auth_events with the slots of a set put to what was resolved for them.  *)
RECURSIVE WithResolved(_, _)
WithResolved(auth_events, slots) ==
    IF slots = {} THEN auth_events
    ELSE LET slot == CHOOSE x \in slots : TRUE
         IN  WithResolved(PutSlot(auth_events, slot, r_out.map[slot]), slots \ {slot})

(* The slots of the room in which the input maps hold different events.   *)
StageConflictedSlots ==
    { slot \in SetOf(StageSlots) : Cardinality(Candidates(slot)) > 1 }

AuthAfterPower == WithResolved(InitialAuth, StageConflictedSlots \cap {PowerSlot})

AuthAfterJoinRules ==
    WithResolved(AuthAfterPower,
                 {slot \in StageConflictedSlots : slot[1] = "m.room.join_rules"})

(* What resolve_auth_events returns for a slot against given auth events.  *)
ResolvedAgainst(slot, auth_events) ==
    resolve_auth_events(slot, InClaimOrder(Candidates(slot)), auth_events, ResolveEvents)

(* C23: the power-levels slot is resolved against the initial auth events, *)
(* each conflicted join-rules slot against the auth events as they are     *)
(* after the power-levels stage, each conflicted member slot against the   *)
(* auth events as they are after the join-rules stage; the values do not   *)
(* change when the slots are visited in the reverse order.                 *)
C23_FixedSnapshots ==
    (r_pc = "done" /\ r_out.status = "ok")
        => /\ \A slot \in StageConflictedSlots :
                r_out.map[slot] =
                    IF slot = PowerSlot THEN ResolvedAgainst(slot, InitialAuth)
                    ELSE IF slot[1] = "m.room.join_rules"
                    THEN ResolvedAgainst(slot, AuthAfterPower)
                    ELSE ResolvedAgainst(slot, AuthAfterJoinRules)
           /\ r_out = resolve_state(r_sets, ResolveEvents, Reverse(r_order))

(* The join rules and both member slots conflict.  The join rules resolve  *)
(* to invite where the auth events before that stage held public, and the  *)
(* rejoin of @b:x, which public join rules would authorize, is rejected    *)
(* against the auth events after the join-rules stage: the leave is        *)
(* resolved.  @a:x resolves to its leave, and the auth events of the       *)
(* member stage still hold its join.                                       *)
C23_Witness ==
    /\ r_pc = "done" /\ r_out.status = "ok"
    /\ {JoinRulesSlot, MemberSlot("@a:x"), MemberSlot("@b:x")} \subseteq StageConflictedSlots
    /\ AuthAfterPower[JoinRulesSlot] = "$j1:x"
    /\ AuthAfterJoinRules[JoinRulesSlot] = "$j2:x"
    /\ r_out.map[JoinRulesSlot] = "$j2:x"
    /\ ResolvedAgainst(MemberSlot("@b:x"), AuthAfterPower) = "$2:x"
    /\ r_out.map[MemberSlot("@b:x")] = "$mb2:x"
    /\ AuthAfterJoinRules[MemberSlot("@a:x")] = "$ma:x"
    /\ r_out.map[MemberSlot("@a:x")] = "$1:x"

-----------------------------------------------------------------------------
(* A claim about the binary search, checked under SpecSearch.              *)

(* The positions of ordered, from 0, whose computed state differs.         *)
Differing == { i \in 0..(Len(s_agree) - 1) : ~s_agree[i + 1] }

(* C28: the index the search reports is the smallest index whose computed  *)
(* state differs from the external one, and it reports none (the index is  *)
(* the length of ordered) exactly when no event differs.                   *)
C28_FirstDivergence ==
    s_pc = "done" =>
        s_res = IF Differing = {} THEN Len(s_agree)
                ELSE CHOOSE i \in Differing : \A j \in Differing : i <= j

====
